---- MODULE Spec2Model ----
(***************************************************************************)
(* Verification model of the Hockey Arena analyser: the rating engine and  *)
(* the market opportunity scorer of fixed_hockey_scraper.py                *)
(* (IntelligentHockeyAnalyzer) and the opponent estimator of               *)
(* hockey_arena_master_gui.py (OpponentIntelligence, HockeyArenaMasterAI). *)
(*                                                                         *)
(* Representation.  A Python str is a sequence of one-character strings.   *)
(* TLA+ strings are ASCII, so a Cyrillic letter is written "c_<latin>"     *)
(* (one token per letter, distinct from every Latin letter).  A dict is a  *)
(* sequence of entries [key, val] with distinct keys, in insertion order.  *)
(* A dict value is [t |-> "str", s |-> chars, i |-> 0] or                   *)
(* [t |-> "int", s |-> <<>>, i |-> n].                                     *)
(* A float is an exact rational, kept as an integer number of tenths       *)
(* (ratings, strengths, probabilities) or hundredths (scores, ratios).     *)
(* Python's round() works on the binary double, so a value that lies       *)
(* exactly half way between two decimals may come out on either side: the  *)
(* rounding operators return the set of both neighbours there.             *)
(***************************************************************************)
EXTENDS Integers, Sequences, FiniteSets, TLC

VARIABLES
    player_data,    \* the record handed to the rating engine
    args,           \* the other arguments a caller holds for its call
    call,           \* the last call made and what it returned
    soup,           \* the parsed page the site serves: tables of rows of cells
    market_data,    \* self.data['market_data']
    transfer_targets, \* self.data['transfer_targets']
    opponent_cache, \* OpponentIntelligence.opponent_cache
    our_players,    \* HockeyArenaMasterAI.our_players
    team_info,      \* HockeyArenaMasterAI.team_info
    requested,      \* the pages analyze_our_team has asked the site for
    data_players,   \* self.data['players'] of the scraper
    clock,          \* the last reading of datetime.now()
    finances,       \* self.data['finances']
    youth_players,  \* self.data['youth_players']
    youth_school,   \* self.data['youth_school'], or Absent when there is no such key
    run,            \* how far run_intelligent_analysis has come and what it has done
    gui             \* HockeyArenaGUI: its flags, its threads and Tk's queue of callbacks

vars ==
    <<player_data, args, call, soup, market_data, transfer_targets, opponent_cache,
      our_players, team_info, requested, data_players, clock, finances,
      youth_players, youth_school, run, gui>>

market_vars == <<market_data, transfer_targets>>

team_vars == <<our_players, team_info, requested>>

players_vars == <<data_players, clock>>

pages_vars == <<finances, youth_players, youth_school, run>>

\* a key self.data does not hold
Absent == [t |-> "absent", s |-> <<>>, i |-> 0]

roster_vars == <<team_vars, players_vars, pages_vars, gui>>

\* no run of the scraper has begun
NoRun ==
    [pc |-> "start", page |-> 0, login |-> "none", analysed |-> {}, ai_analysis |-> FALSE,
     files |-> {}, ret |-> "none"]

\* the main thread is in no callback; inside update_opponents_list it
\* holds the list opponent_names and the place of the loop in it
NoListing == [pc |-> "idle", names |-> <<>>, i |-> 0]

\* HockeyArenaGUI after __init__: not running, the start button enabled,
\* no analyzer, opponents_data = {}, no thread, nothing scheduled with
\* root.after, no callback ended by an exception
NoGui ==
    [running |-> FALSE, login_button |-> "normal", analyzer |-> FALSE,
     our_players |-> FALSE, opponents_data |-> <<>>, tactics |-> FALSE,
     threads |-> <<>>, workers |-> <<>>, after |-> <<>>, main |-> NoListing,
     raised |-> "none"]

\* nothing extracted yet: the lists and dicts __init__ creates
RosterIdle ==
    /\ our_players = <<>>
    /\ team_info = <<>>
    /\ requested = <<>>
    /\ data_players = <<>>
    /\ clock = 0
    /\ finances = <<>>
    /\ youth_players = <<>>
    /\ youth_school = Absent
    /\ run = NoRun
    /\ gui = NoGui

----------------------------------------------------------------------------
(* Python str, list and dict primitives                                    *)

\* x in xs  (list membership)
InList(x, xs) == \E i \in 1..Len(xs) : xs[i] = x

\* sub in s  (substring test of str.__contains__)
Contains(s, sub) ==
    \E i \in 1..(Len(s) - Len(sub) + 1) : SubSeq(s, i, i + Len(sub) - 1) = sub

\* any(keyword in s for keyword in keywords)
ContainsAny(s, keywords) == \E i \in 1..Len(keywords) : Contains(s, keywords[i])

DigitChars == <<"0", "1", "2", "3", "4", "5", "6", "7", "8", "9">>

IsDigit(c) == InList(c, DigitChars)

\* the value of a digit character
DigitValue(c) == (CHOOSE i \in 1..Len(DigitChars) : DigitChars[i] = c) - 1

\* int(s) for a str of digits only
RECURSIVE IntOfDigits(_)
IntOfDigits(s) ==
    IF s = <<>> THEN 0
    ELSE 10 * IntOfDigits(SubSeq(s, 1, Len(s) - 1)) + DigitValue(s[Len(s)])

\* the length of the longest prefix of s made of characters of class
RECURSIVE RunLength(_, _)
RunLength(s, class) ==
    IF s = <<>> \/ Head(s) \notin class THEN 0 ELSE 1 + RunLength(Tail(s), class)

\* re.findall(pattern, s) for a pattern "[class]+": the maximal runs, in order
RECURSIVE FindAllRuns(_, _)
FindAllRuns(s, class) ==
    IF s = <<>> THEN <<>>
    ELSE IF Head(s) \in class
         THEN LET n == RunLength(s, class)
              IN  <<SubSeq(s, 1, n)>> \o FindAllRuns(SubSeq(s, n + 1, Len(s)), class)
         ELSE FindAllRuns(Tail(s), class)

\* the character class \d
DigitClass == {DigitChars[i] : i \in 1..Len(DigitChars)}

\* re.findall(r'\d+', s)
findall_digits(s) == FindAllRuns(s, DigitClass)

\* str.lower() on the alphabet of the model: the upper-case Latin letters
\* used, and the upper-case Cyrillic letters used ("C_m" for "c_m")
UpperChars ==
    <<"A", "B", "C", "D", "E", "F", "G", "H", "I", "K", "U",
      "C_m", "C_l", "C_g", "C_r", "C_f">>
LowerChars ==
    <<"a", "b", "c", "d", "e", "f", "g", "h", "i", "k", "u",
      "c_m", "c_l", "c_g", "c_r", "c_f">>

LowerChar(c) ==
    IF InList(c, UpperChars)
    THEN LowerChars[CHOOSE i \in 1..Len(UpperChars) : UpperChars[i] = c]
    ELSE c

lower(s) == [i \in 1..Len(s) |-> LowerChar(s[i])]

StrVal(s) == [t |-> "str", s |-> s, i |-> 0]
IntVal(n) == [t |-> "int", s |-> <<>>, i |-> n]

\* str(n) for n >= 0
RECURSIVE StrOfNat(_)
StrOfNat(n) ==
    IF n < 10 THEN <<DigitChars[n + 1]>>
    ELSE StrOfNat(n \div 10) \o <<DigitChars[(n % 10) + 1]>>

\* str(value); a float holds its tenths in i
py_str(val) ==
    IF val.t = "int" THEN StrOfNat(val.i)
    ELSE IF val.t = "float" THEN StrOfNat(val.i \div 10) \o <<".">> \o StrOfNat(val.i % 10)
    ELSE val.s

\* key in d
HasKey(d, key) == \E i \in 1..Len(d) : d[i].key = key

\* d[key]
Lookup(d, key) == d[CHOOSE i \in 1..Len(d) : d[i].key = key].val

\* d.get(key, default)
dict_get(d, key, default) == IF HasKey(d, key) THEN Lookup(d, key) ELSE default

\* d[key] = val : a new key goes last, an old key keeps its place
dict_set(d, key, val) ==
    IF HasKey(d, key)
    THEN [i \in 1..Len(d) |-> IF d[i].key = key THEN [key |-> key, val |-> val] ELSE d[i]]
    ELSE Append(d, [key |-> key, val |-> val])

\* str(d): the keys and the values' texts in order, each closed by a quote;
\* the braces, colons, commas and blanks of the repr belong to no keyword
RECURSIVE dict_str(_)
dict_str(d) ==
    IF d = <<>> THEN <<>>
    ELSE <<"'">> \o Head(d).key \o <<"'">> \o py_str(Head(d).val) \o dict_str(Tail(d))

----------------------------------------------------------------------------
(* Rounding of a double to decimals                                        *)

\* round(num / den, k) in units of 10^-k, given num already scaled by 10^k:
\* the nearest integer, and both neighbours at an exact half
RoundSet(num, den) ==
    LET f == num \div den
        r == num % den
    IN  IF 2 * r < den THEN {f}
        ELSE IF 2 * r > den THEN {f + 1}
        ELSE {f, f + 1}

Max(a, b) == IF a >= b THEN a ELSE b
Min(a, b) == IF a <= b THEN a ELSE b

----------------------------------------------------------------------------
(* Keys and keywords                                                       *)

k_goa == <<"g", "o", "a">>
k_def == <<"d", "e", "f">>
k_att == <<"a", "t", "t">>
k_sho == <<"s", "h", "o">>
k_spe == <<"s", "p", "e">>
k_str == <<"s", "t", "r">>
k_pas == <<"p", "a", "s">>
k_dis == <<"d", "i", "s">>

\* 'име', 'възраст', 'мин. цена': the market and player column headers
k_ime == <<"c_i", "c_m", "c_e">>
k_vazrast == <<"c_v", "c_hard", "c_z", "c_r", "c_a", "c_s", "c_t">>
k_min_cena == <<"c_m", "c_i", "c_n", ".", " ", "c_c", "c_e", "c_n", "c_a">>

\* 'вратар', 'goalkeeper', 'gk'
GoalkeeperKeywords ==
    << <<"c_v", "c_r", "c_a", "c_t", "c_a", "c_r">>,
       <<"g", "o", "a", "l", "k", "e", "e", "p", "e", "r">>,
       <<"g", "k">> >>

\* 'защитник', 'defenseman', 'def'
DefensemanKeywords ==
    << <<"c_z", "c_a", "c_sht", "c_i", "c_t", "c_n", "c_i", "c_k">>,
       <<"d", "e", "f", "e", "n", "s", "e", "m", "a", "n">>,
       k_def >>

----------------------------------------------------------------------------
(* IntelligentHockeyAnalyzer: the rating engine                            *)

\* self.position_weights, weights in hundredths, both dicts in source order
position_weights ==
    << [key |-> "goalkeeper",
        val |-> << [key |-> k_goa, val |-> 40], [key |-> k_def, val |-> 20],
                   [key |-> k_str, val |-> 20], [key |-> k_spe, val |-> 10],
                   [key |-> k_att, val |-> 5],  [key |-> k_sho, val |-> 5],
                   [key |-> k_pas, val |-> 0] >>],
       [key |-> "defenseman",
        val |-> << [key |-> k_def, val |-> 30], [key |-> k_str, val |-> 25],
                   [key |-> k_pas, val |-> 20], [key |-> k_goa, val |-> 0],
                   [key |-> k_spe, val |-> 15], [key |-> k_att, val |-> 5],
                   [key |-> k_sho, val |-> 5] >>],
       [key |-> "forward",
        val |-> << [key |-> k_att, val |-> 25], [key |-> k_sho, val |-> 25],
                   [key |-> k_spe, val |-> 20], [key |-> k_pas, val |-> 15],
                   [key |-> k_str, val |-> 10], [key |-> k_def, val |-> 5],
                   [key |-> k_goa, val |-> 0] >>],
       [key |-> "center",
        val |-> << [key |-> k_pas, val |-> 25], [key |-> k_att, val |-> 20],
                   [key |-> k_sho, val |-> 20], [key |-> k_spe, val |-> 15],
                   [key |-> k_str, val |-> 10], [key |-> k_def, val |-> 10],
                   [key |-> k_goa, val |-> 0] >>] >>

\* the attribute names calculate_player_rating accepts as keys
RatingKeys == <<k_goa, k_def, k_att, k_sho, k_spe, k_str, k_pas>>

\* the loop over player_data.items() of calculate_player_rating: the dict
\* attributes, key.lower() -> int(numbers[0]), for the keys that are attribute
\* names and whose text holds a digit run
RECURSIVE rating_attributes(_)
rating_attributes(pd) ==
    IF pd = <<>> THEN <<>>
    ELSE LET rest == rating_attributes(SubSeq(pd, 1, Len(pd) - 1))
             e == pd[Len(pd)]
             numbers == findall_digits(py_str(e.val))
         IN  IF InList(lower(e.key), RatingKeys) /\ numbers # <<>>
             THEN dict_set(rest, lower(e.key), IntOfDigits(numbers[1]))
             ELSE rest

\* the position the weights are taken for: a request for 'forward' is
\* redirected when str(player_data).lower() holds a position keyword
rating_position(pd, position) ==
    IF position = "forward" /\ ContainsAny(lower(dict_str(pd)), GoalkeeperKeywords)
    THEN "goalkeeper"
    ELSE IF position = "forward" /\ ContainsAny(lower(dict_str(pd)), DefensemanKeywords)
    THEN "defenseman"
    ELSE position

\* sum of f(e) over the entries e of weights that count: attr in attributes
\* and weight > 0
RECURSIVE WeightedSum(_, _, _)
WeightedSum(weights, attributes, withValue) ==
    IF weights = <<>> THEN 0
    ELSE LET e == Head(weights)
             rest == WeightedSum(Tail(weights), attributes, withValue)
         IN  IF HasKey(attributes, e.key) /\ e.val > 0
             THEN (IF withValue THEN Lookup(attributes, e.key) * e.val ELSE e.val) + rest
             ELSE rest

\* calculate_player_rating with the guard on total_weight lost: a record
\* none of whose attributes carries weight gets the neutral rating 50.0
calculate_player_rating_neutral(pd, position) ==
    LET attributes == rating_attributes(pd)
        weights == dict_get(position_weights, rating_position(pd, position),
                            Lookup(position_weights, "forward"))
        total_rating == WeightedSum(weights, attributes, TRUE)
        total_weight == WeightedSum(weights, attributes, FALSE)
    IN  IF attributes = <<>> THEN {0}
        ELSE IF total_weight > 0 THEN RoundSet(10 * total_rating, total_weight)
        ELSE {500}

\* calculate_player_rating(player_data, position): the rating in tenths, as
\* the set of values round(total_rating / total_weight, 1) can take
calculate_player_rating(pd, position) ==
    LET attributes == rating_attributes(pd)
        weights == dict_get(position_weights, rating_position(pd, position),
                            Lookup(position_weights, "forward"))
        total_rating == WeightedSum(weights, attributes, TRUE)
        total_weight == WeightedSum(weights, attributes, FALSE)
    IN  IF attributes = <<>> THEN {0}
        ELSE IF total_weight > 0 THEN RoundSet(10 * total_rating, total_weight)
        ELSE {0}

\* max(ratings, key=ratings.get): the first key, in the dict's order, whose
\* value is the largest
first_max(ratings) ==
    ratings[CHOOSE i \in 1..Len(ratings) :
                /\ \A j \in 1..Len(ratings) : ratings[j].val <= ratings[i].val
                /\ \A j \in 1..(i - 1) : ratings[j].val < ratings[i].val].key

\* IntelligentHockeyAnalyzer._determine_best_position, given the rating each
\* call of calculate_player_rating returned, in the order of position_weights
scraper_determine_best_position(ratings) == first_max(ratings)

----------------------------------------------------------------------------
(* HockeyArenaMasterAI: the rating of an extracted player record           *)

\* attr_mapping of _calculate_ai_rating, in source order: the attribute and
\* the substrings of a key that select it (Latin, Slovak, Bulgarian)
attr_mapping ==
    << [key |-> k_goa, val |-> <<k_goa, <<"b", "r", "a_acute", "n", "a">> >>],
       [key |-> k_def, val |-> <<k_def, <<"o", "b", "r", "a", "n", "a">>,
                                 <<"c_z", "c_a", "c_sht", "c_i", "c_t", "c_a">> >>],
       [key |-> k_att, val |-> <<k_att, <<"u_acute", "t", "o", "k">>,
                                 <<"c_a", "c_t", "c_a", "c_k", "c_a">> >>],
       [key |-> k_sho, val |-> <<k_sho, <<"s", "t", "r", "e", "l_caron", "b", "a">>,
                                 <<"c_s", "c_t", "c_r", "c_e", "c_l", "c_b", "c_a">> >>],
       [key |-> k_pas, val |-> <<k_pas, <<"n", "a", "h", "r", "a_acute", "v", "k", "a">>,
                                 <<"c_p", "c_o", "c_d", "c_a", "c_v", "c_a", "c_n", "c_e">> >>],
       [key |-> k_str, val |-> <<k_str, <<"s", "i", "l", "a">>,
                                 <<"c_s", "c_i", "c_l", "c_a">> >>],
       [key |-> k_spe, val |-> <<k_spe, <<"r", "y_acute", "c", "h", "l", "o", "s", "t_caron">>,
                                 <<"c_s", "c_k", "c_o", "c_r", "c_o", "c_s", "c_t">> >>],
       [key |-> k_dis, val |-> <<k_dis, <<"s", "e", "b", "a", "o", "v", "l", "a_acute", "d", "a", "n", "i", "e">>,
                                 <<"c_d", "c_i", "c_s", "c_c", "c_i", "c_p", "c_l", "c_i", "c_n", "c_a">> >>] >>

\* the inner loop of _calculate_ai_rating for one attribute: the value of the
\* first key that holds one of the variations and whose value is an int or a
\* str with a digit run; <<>> when there is none
RECURSIVE mapped_value(_, _)
mapped_value(pd, variations) ==
    IF pd = <<>> THEN <<>>
    ELSE LET e == Head(pd)
         IN  IF ~ContainsAny(lower(e.key), variations)
             THEN mapped_value(Tail(pd), variations)
             ELSE IF e.val.t = "int" THEN <<e.val.i>>
             ELSE IF findall_digits(e.val.s) # <<>>
             THEN <<IntOfDigits(findall_digits(e.val.s)[1])>>
             ELSE mapped_value(Tail(pd), variations)

\* the dict attributes of _calculate_ai_rating
RECURSIVE ai_attributes(_, _)
ai_attributes(pd, mapping) ==
    IF mapping = <<>> THEN <<>>
    ELSE LET v == mapped_value(pd, Head(mapping).val)
             rest == ai_attributes(pd, Tail(mapping))
         IN  IF v # <<>> THEN <<[key |-> Head(mapping).key, val |-> v[1]]>> \o rest
             ELSE rest

\* sum(attributes.values()), max(attributes.values())
RECURSIVE SumValues(_)
SumValues(d) == IF d = <<>> THEN 0 ELSE Head(d).val + SumValues(Tail(d))

RECURSIVE MaxValue(_)
MaxValue(d) == IF Len(d) = 1 THEN d[1].val ELSE Max(Head(d).val, MaxValue(Tail(d)))

\* round(min(100, max(0, num / den)), 1) in tenths, num already in tenths
clamped_round(num, den) ==
    IF num >= 1000 * den THEN {1000} ELSE RoundSet(num, den)

\* _calculate_ai_rating(player_data) in tenths: the mean of the attributes
\* found, plus a tenth of (max - mean) when max > mean * 1.3.  At exact
\* equality the comparison of the doubles may fall either way.
gui_calculate_ai_rating(pd) ==
    LET attributes == ai_attributes(pd, attr_mapping)
        total_points == SumValues(attributes)
        num_attributes == Len(attributes)
        max_attr == MaxValue(attributes)
        plain == clamped_round(10 * total_points, num_attributes)
        bonus == clamped_round(9 * total_points + num_attributes * max_attr,
                               num_attributes)
    IN  IF attributes = <<>> THEN {0}
        ELSE IF 10 * max_attr * num_attributes > 13 * total_points THEN bonus
        ELSE IF 10 * max_attr * num_attributes = 13 * total_points THEN plain \cup bonus
        ELSE plain

\* the elif chain of HockeyArenaMasterAI._determine_best_position: the
\* attribute a key stands for, the first of these substrings it holds
BestPositionKeys == <<k_goa, k_def, k_att, k_sho, k_pas, k_str, k_spe>>

first_substring(key, subs) ==
    subs[CHOOSE i \in 1..Len(subs) :
             /\ Contains(key, subs[i])
             /\ \A j \in 1..(i - 1) : ~Contains(key, subs[j])]

\* the dict attributes of HockeyArenaMasterAI._determine_best_position: only
\* int values count, a later key overwrites an earlier one
RECURSIVE best_position_attributes(_)
best_position_attributes(pd) ==
    IF pd = <<>> THEN <<>>
    ELSE LET rest == best_position_attributes(SubSeq(pd, 1, Len(pd) - 1))
             e == pd[Len(pd)]
         IN  IF e.val.t = "int" /\ ContainsAny(lower(e.key), BestPositionKeys)
             THEN dict_set(rest, first_substring(lower(e.key), BestPositionKeys), e.val.i)
             ELSE rest

\* the four weighted sums of HockeyArenaMasterAI._determine_best_position, in
\* hundredths, in source order; attributes.get(attr, 0) for a missing one
gui_position_formulas ==
    << [key |-> "Goalkeeper",
        val |-> << [key |-> k_goa, val |-> 60], [key |-> k_spe, val |-> 30],
                   [key |-> k_pas, val |-> 10] >>],
       [key |-> "Defender",
        val |-> << [key |-> k_def, val |-> 40], [key |-> k_str, val |-> 25],
                   [key |-> k_spe, val |-> 15], [key |-> k_pas, val |-> 10],
                   [key |-> k_att, val |-> 10] >>],
       [key |-> "Center",
        val |-> << [key |-> k_pas, val |-> 30], [key |-> k_att, val |-> 25],
                   [key |-> k_str, val |-> 20], [key |-> k_spe, val |-> 15],
                   [key |-> k_sho, val |-> 10] >>],
       [key |-> "Forward",
        val |-> << [key |-> k_att, val |-> 30], [key |-> k_sho, val |-> 30],
                   [key |-> k_spe, val |-> 20], [key |-> k_pas, val |-> 15],
                   [key |-> k_str, val |-> 5] >>] >>

\* sum of attributes.get(attr, 0) * weight over one formula
RECURSIVE PlainSum(_, _)
PlainSum(formula, attributes) ==
    IF formula = <<>> THEN 0
    ELSE dict_get(attributes, Head(formula).key, 0) * Head(formula).val
         + PlainSum(Tail(formula), attributes)

\* position_ratings: the Goalkeeper entry exists only when 'goa' is known
gui_position_ratings(attributes) ==
    LET all == [i \in 1..Len(gui_position_formulas) |->
                   [key |-> gui_position_formulas[i].key,
                    val |-> PlainSum(gui_position_formulas[i].val, attributes)]]
    IN  IF HasKey(attributes, k_goa) THEN all ELSE Tail(all)

\* HockeyArenaMasterAI._determine_best_position(player_data): the positions
\* max(position_ratings, key=position_ratings.get) can return.  The sums are
\* doubles: sums that are exactly equal may differ in the last bit, so any
\* position of exactly maximal rating can be the one returned.
gui_determine_best_position(pd) ==
    LET attributes == best_position_attributes(pd)
        ratings == gui_position_ratings(attributes)
    IN  IF attributes = <<>> THEN {"Unknown"}
        ELSE {ratings[i].key : i \in {i \in 1..Len(ratings) :
                 \A j \in 1..Len(ratings) : ratings[j].val <= ratings[i].val}}

----------------------------------------------------------------------------
(* PlayerStats                                                             *)

\* PlayerStats(goa=player.get('goa', 0), ...) of generate_optimal_tactics:
\* the eight attribute fields, 0 for a key the record lacks
GetInt(pd, key, default) == dict_get(pd, key, IntVal(default)).i

player_stat(pd) ==
    [goa |-> GetInt(pd, k_goa, 0), def_ |-> GetInt(pd, k_def, 0),
     att |-> GetInt(pd, k_att, 0), sho |-> GetInt(pd, k_sho, 0),
     pas |-> GetInt(pd, k_pas, 0), str_ |-> GetInt(pd, k_str, 0),
     spe |-> GetInt(pd, k_spe, 0), dis |-> GetInt(pd, k_dis, 0)]

\* PlayerStats.calculate_position_rating(position_type), in hundredths
calculate_position_rating(self, position_type) ==
    IF position_type = "goalkeeper"
    THEN self.goa * 60 + self.spe * 30 + self.pas * 10
    ELSE IF position_type = "defender"
    THEN self.def_ * 40 + self.str_ * 25 + self.spe * 15 + self.pas * 10 + self.att * 10
    ELSE IF position_type = "center"
    THEN self.pas * 30 + self.att * 25 + self.str_ * 20 + self.spe * 15 + self.sho * 10
    ELSE self.att * 30 + self.sho * 30 + self.spe * 20 + self.pas * 15 + self.str_ * 5

----------------------------------------------------------------------------
(* IntelligentHockeyAnalyzer: the market opportunity scorer                *)

\* the character class \s: the blank, the no-break space and the line break
\* of the pages
WhitespaceClass == {" ", "nbsp", "\n"}

\* s.replace(c, '')
RECURSIVE RemoveChar(_, _)
RemoveChar(s, c) ==
    IF s = <<>> THEN <<>>
    ELSE IF Head(s) = c THEN RemoveChar(Tail(s), c)
    ELSE <<Head(s)>> \o RemoveChar(Tail(s), c)

\* ''.join(s.split()): s without its whitespace
RECURSIVE JoinSplit(_)
JoinSplit(s) ==
    IF s = <<>> THEN <<>>
    ELSE IF Head(s) \in WhitespaceClass THEN JoinSplit(Tail(s))
    ELSE <<Head(s)>> \o JoinSplit(Tail(s))

\* s.strip()
RECURSIVE strip(_)
strip(s) ==
    IF s = <<>> THEN <<>>
    ELSE IF Head(s) \in WhitespaceClass THEN strip(Tail(s))
    ELSE IF s[Len(s)] \in WhitespaceClass THEN strip(SubSeq(s, 1, Len(s) - 1))
    ELSE s

\* the price of analyze_market_opportunities: commas and blanks removed, the
\* first run of [\d\s]+ taken, its whitespace dropped; int('') raises and
\* leaves price = 0
parse_price(price_text) ==
    LET price_numbers == FindAllRuns(RemoveChar(RemoveChar(price_text, ","), " "),
                                     DigitClass \cup WhitespaceClass)
    IN  IF price_numbers = <<>> THEN 0
        ELSE IF JoinSplit(price_numbers[1]) = <<>> THEN 0
        ELSE IntOfDigits(JoinSplit(price_numbers[1]))

\* the age of analyze_market_opportunities: re.search(r'\d+', age_text), 30
\* when the key or the digits are missing
parse_age(player) ==
    LET age_match == findall_digits(py_str(dict_get(player, k_vazrast, StrVal(<<"3", "0">>))))
    IN  IF age_match # <<>> THEN IntOfDigits(age_match[1]) ELSE 30

\* round(num * 10^e / den), powers of ten cancelled first
RECURSIVE RoundRatio(_, _, _)
RoundRatio(num, e, den) ==
    IF e = 0 THEN RoundSet(num, den)
    ELSE IF den % 10 = 0 THEN RoundRatio(num, e - 1, den \div 10)
    ELSE RoundRatio(num * 10, e - 1, den)

\* the _get_transfer_recommendation that asks for a rating above 60 before
\* it calls a veteran overpriced
get_transfer_recommendation_rating_first(rating, price, age) ==
    IF age < 22 /\ rating > 500 THEN "young_talent"
    ELSE IF rating > 700 /\ price < 10000000 THEN "value_for_money"
    ELSE IF rating > 600 THEN "good_addition"
    ELSE IF age > 32 /\ price > 20000000 THEN "overpriced_veteran"
    ELSE "not_recommended"

\* _get_transfer_recommendation(rating, price, age), rating in tenths; the
\* five texts returned are named by what they say
get_transfer_recommendation(rating, price, age) ==
    IF age < 22 /\ rating > 500 THEN "young_talent"
    ELSE IF rating > 700 /\ price < 10000000 THEN "value_for_money"
    ELSE IF age > 32 /\ price > 20000000 THEN "overpriced_veteran"
    ELSE IF rating > 600 THEN "good_addition"
    ELSE "not_recommended"

\* max(0.5, (35 - age) / 10) in tenths
age_factor(age) == Max(5, 35 - age)

\* the dict appended for a listing that passed the tests; row is the place
\* of the listing in market_data (kept to tell equal listings apart)
opportunity(player, row, rating, price, age) ==
    {[row |-> row,
      player |-> py_str(dict_get(player, k_ime, StrVal(<<"U", "n", "k", "n", "o", "w", "n">>))),
      rating |-> rating, price |-> price, age |-> age,
      value_ratio |-> vr, opportunity_score |-> os,
      recommendation |-> get_transfer_recommendation(rating, price, age)] :
        vr \in RoundRatio(rating, 7, price),
        os \in RoundRatio(rating * age_factor(age), 6, price)}

\* market_entry with the test price > 0 lost: a listing without a price is
\* appended with value 0
market_entry_unpriced(player, row) ==
    LET price == parse_price(py_str(dict_get(player, k_min_cena, StrVal(<<"0">>))))
        age == parse_age(player)
    IN  UNION {IF rating > 0 /\ price <= 0
               THEN {<<[row |-> row, player |-> <<>>, rating |-> rating, price |-> price,
                        age |-> age, value_ratio |-> 0, opportunity_score |-> 0,
                        recommendation |-> "not_recommended"]>>}
               ELSE IF rating > 0 /\ rating * age_factor(age) * 2000 > price
               THEN {<<o>> : o \in opportunity(player, row, rating, price, age)}
               ELSE {<<>>} :
                  rating \in calculate_player_rating(player, "forward")}

\* market_entry with the floor of the age factor lost: (35 - age) / 10
market_entry_no_floor(player, row) ==
    LET price == parse_price(py_str(dict_get(player, k_min_cena, StrVal(<<"0">>))))
        age == parse_age(player)
    IN  UNION {IF price > 0 /\ rating > 0 /\ rating * (35 - age) * 2000 > price
               THEN {<<o>> : o \in opportunity(player, row, rating, price, age)}
               ELSE {<<>>} :
                  rating \in calculate_player_rating(player, "forward")}

\* one pass of the loop of analyze_market_opportunities: what the listing
\* adds to opportunities, <<>> or one dict.  opportunity_score > 5 is
\* rating * age_factor * 2000 > price; when the two sides are equal the
\* product of the doubles is 5.0 or 5.000000000000001 and the test may pass.
market_entry(player, row) ==
    LET price == parse_price(py_str(dict_get(player, k_min_cena, StrVal(<<"0">>))))
        age == parse_age(player)
    IN  UNION {IF price > 0 /\ rating > 0
               THEN (IF rating * age_factor(age) * 2000 > price
                     THEN {<<o>> : o \in opportunity(player, row, rating, price, age)}
                     ELSE IF rating * age_factor(age) * 2000 = price
                     THEN {<<>>} \cup {<<o>> : o \in opportunity(player, row, rating, price, age)}
                     ELSE {<<>>})
               ELSE {<<>>} :
                  rating \in calculate_player_rating(player, "forward")}

\* the lists opportunities can be after the loop over the first n listings
RECURSIVE opportunities(_, _)
opportunities(md, n) ==
    IF n = 0 THEN {<<>>}
    ELSE {prev \o e : prev \in opportunities(md, n - 1), e \in market_entry(md[n], n)}

\* sort without reverse=True: ascending, equal scores in their first order
RECURSIVE sort_by_score_ascending(_)
sort_by_score_ascending(ops) ==
    IF ops = <<>> THEN <<>>
    ELSE LET sorted == sort_by_score_ascending(SubSeq(ops, 1, Len(ops) - 1))
             e == ops[Len(ops)]
             k == Cardinality({i \in 1..Len(sorted) :
                                  sorted[i].opportunity_score <= e.opportunity_score})
         IN  SubSeq(sorted, 1, k) \o <<e>> \o SubSeq(sorted, k + 1, Len(sorted))

\* opportunities.sort(key=lambda x: x['opportunity_score'], reverse=True):
\* descending, equal scores in their first order
RECURSIVE sort_by_score(_)
sort_by_score(ops) ==
    IF ops = <<>> THEN <<>>
    ELSE LET sorted == sort_by_score(SubSeq(ops, 1, Len(ops) - 1))
             e == ops[Len(ops)]
             k == Cardinality({i \in 1..Len(sorted) :
                                  sorted[i].opportunity_score >= e.opportunity_score})
         IN  SubSeq(sorted, 1, k) \o <<e>> \o SubSeq(sorted, k + 1, Len(sorted))

\* opportunities[:10]
TopN == 10

\* analyze_market_opportunities(): the lists it can return for market_data
analyze_market_opportunities(md) ==
    {SubSeq(sort_by_score(ops), 1, Min(TopN, Len(ops))) : ops \in opportunities(md, Len(md))}

\* the text of the dict _analyze_market_player returns
AiAnalysisText ==
    <<"v", "a", "l", "u", "e", "_", "a", "s", "s", "e", "s", "s", "m", "e", "n", "t",
      "'", "u", "n", "k", "n", "o", "w", "n", "'",
      "r", "i", "s", "k", "_", "l", "e", "v", "e", "l", "'", "m", "e", "d", "i", "u", "m", "'",
      "r", "e", "c", "o", "m", "m", "e", "n", "d", "a", "t", "i", "o", "n",
      "'", "e", "v", "a", "l", "u", "a", "t", "e">>

k_ai_analysis == <<"a", "i", "_", "a", "n", "a", "l", "y", "s", "i", "s">>

\* 'цена', 'price', 'оферта', 'bid', 'срок', 'deadline'
market_indicators ==
    << <<"c_c", "c_e", "c_n", "c_a">>, <<"p", "r", "i", "c", "e">>,
       <<"c_o", "c_f", "c_e", "c_r", "c_t", "c_a">>, <<"b", "i", "d">>,
       <<"c_s", "c_r", "c_o", "c_k">>,
       <<"d", "e", "a", "d", "l", "i", "n", "e">> >>

\* ' '.join(headers)
RECURSIVE join_blank(_)
join_blank(strs) ==
    IF strs = <<>> THEN <<>>
    ELSE IF Len(strs) = 1 THEN strs[1]
    ELSE strs[1] \o <<" ">> \o join_blank(Tail(strs))

\* headers = [th.get_text().strip().lower() for th in rows[0]]
table_headers(table) == [i \in 1..Len(table[1]) |-> lower(strip(table[1][i]))]

\* the mapping loop of a data row: d[headers[col_idx]] = cell_text for every
\* cell under a header whose stripped text is neither empty nor '-'
RECURSIVE map_cells(_, _, _)
map_cells(headers, cells, n) ==
    IF n = 0 THEN <<>>
    ELSE LET rest == map_cells(headers, cells, n - 1)
             cell_text == strip(cells[n])
         IN  IF n <= Len(headers) /\ cell_text # <<>> /\ cell_text # <<"-">>
             THEN dict_set(rest, headers[n], StrVal(cell_text))
             ELSE rest

\* the rows of one table that become market players
RECURSIVE market_rows(_, _, _)
market_rows(headers, table, n) ==
    IF n <= 1 THEN <<>>
    ELSE LET rest == market_rows(headers, table, n - 1)
             cells == table[n]
             market_row == map_cells(headers, cells, Len(cells))
         IN  IF Len(cells) >= 2 /\ Len(market_row) >= 2
             THEN Append(rest, dict_set(market_row, k_ai_analysis,
                                        [t |-> "dict", s |-> AiAnalysisText, i |-> 0]))
             ELSE rest

\* market_players of _analyze_market_intelligently(soup)
RECURSIVE market_players(_)
market_players(tables) ==
    IF tables = <<>> THEN <<>>
    ELSE LET rest == market_players(SubSeq(tables, 1, Len(tables) - 1))
             table == tables[Len(tables)]
         IN  IF Len(table) >= 2
                /\ ContainsAny(join_blank(table_headers(table)), market_indicators)
             THEN rest \o market_rows(table_headers(table), table, Len(table))
             ELSE rest

----------------------------------------------------------------------------
(* The rating engine as a state machine: a record arrives, then one of the *)
(* rating operations is called on it                                       *)

\* the cell texts of an attribute column on a scraped page: "0", "40" and
\* "70" under 'att' and 'def', "0" and "70" under the other attributes
AttrCellTexts(key) ==
    IF key \in {k_att, k_def} THEN {<<"0">>, <<"4", "0">>, <<"7", "0">>}
    ELSE {<<"0">>, <<"7", "0">>}

\* the ints the extraction of the GUI stores for an attribute column
AttrCellInts == {40, 70}

\* 'поз', a position column, and the text "GK" in it
k_poz == <<"c_p", "c_o", "c_z">>
PositionCellTexts == {<<"G", "K">>}

\* the dict with the entries picked by f, a function from 1..Len(keys) to a
\* set of values (empty: the key is absent; else a singleton)
RECURSIVE MakeDict(_, _)
MakeDict(keys, f) ==
    IF keys = <<>> THEN <<>>
    ELSE LET n == Len(keys)
             rest == MakeDict(SubSeq(keys, 1, n - 1), f)
         IN  IF f[n] = {} THEN rest
             ELSE Append(rest, [key |-> keys[n], val |-> CHOOSE v \in f[n] : TRUE])

Optional(S) == {{}} \cup {{v} : v \in S}

\* a row of a scraped player or market table (IntelligentHockeyAnalyzer):
\* every value is the cell's text
ScraperKeys == RatingKeys \o <<k_poz>>

ScraperRecords ==
    {MakeDict(ScraperKeys, f \o <<p>>) :
        f \in {g \in [1..Len(RatingKeys) ->
                        Optional({StrVal(t) : t \in AttrCellTexts(k_att)})] :
                 \A i \in 1..Len(RatingKeys) :
                     \A v \in g[i] : v.s \in AttrCellTexts(RatingKeys[i])},
        p \in Optional({StrVal(t) : t \in PositionCellTexts})}

\* a record of HockeyArenaMasterAI._extract_our_players: attribute columns
\* hold ints
GuiRecords ==
    {MakeDict(RatingKeys, f) :
        f \in [1..Len(RatingKeys) -> Optional({IntVal(n) : n \in AttrCellInts})]}

\* the position names callers pass: the keys of position_weights, and
\* 'defender', the name the GUI and the specification use
PositionArgs == {"goalkeeper", "defenseman", "forward", "center", "defender"}

PositionTypes == {"goalkeeper", "defender", "center", "forward"}

NoCall == [op |-> "none"]

IsScraperRecord(pd) == \A i \in 1..Len(pd) : pd[i].val.t = "str"

InitRate ==
    /\ player_data \in ScraperRecords \cup GuiRecords
    /\ args = <<>>
    /\ call = NoCall
    /\ soup = <<>>
    /\ market_data = <<>>
    /\ transfer_targets = <<>>
    /\ opponent_cache = <<>>
    /\ RosterIdle

\* rating = self.calculate_player_rating(player_data, position)
CalculatePlayerRating ==
    /\ call = NoCall
    /\ IsScraperRecord(player_data)
    /\ \E position \in PositionArgs :
         \E r \in calculate_player_rating(player_data, position) :
            call' = [op |-> "calculate_player_rating", position |-> position, ret |-> r]
    /\ UNCHANGED <<player_data, args, soup, market_vars, opponent_cache, roster_vars>>

\* the ratings dict _determine_best_position can build: one call of
\* calculate_player_rating per key of position_weights
BestPositionRatings(pd) ==
    LET returned == [i \in 1..Len(position_weights) |->
                        calculate_player_rating(pd, position_weights[i].key)]
    IN  {[i \in 1..Len(position_weights) |->
             [key |-> position_weights[i].key, val |-> f[i]]] :
            f \in {<<a, b, c, d>> : a \in returned[1], b \in returned[2],
                                    c \in returned[3], d \in returned[4]}}

\* IntelligentHockeyAnalyzer._determine_best_position(player_data)
DetermineBestPosition ==
    /\ call = NoCall
    /\ IsScraperRecord(player_data)
    /\ \E ratings \in BestPositionRatings(player_data) :
          call' = [op |-> "scraper_determine_best_position", ratings |-> ratings,
                   ret |-> scraper_determine_best_position(ratings)]
    /\ UNCHANGED <<player_data, args, soup, market_vars, opponent_cache, roster_vars>>

\* HockeyArenaMasterAI._calculate_ai_rating(player_data)
CalculateAiRating ==
    /\ call = NoCall
    /\ ~IsScraperRecord(player_data)
    /\ \E r \in gui_calculate_ai_rating(player_data) :
          call' = [op |-> "gui_calculate_ai_rating", ret |-> r]
    /\ UNCHANGED <<player_data, args, soup, market_vars, opponent_cache, roster_vars>>

\* HockeyArenaMasterAI._determine_best_position(player_data)
GuiDetermineBestPosition ==
    /\ call = NoCall
    /\ ~IsScraperRecord(player_data)
    /\ \E best \in gui_determine_best_position(player_data) :
          call' = [op |-> "gui_determine_best_position", ret |-> best]
    /\ UNCHANGED <<player_data, args, soup, market_vars, opponent_cache, roster_vars>>

\* PlayerStats(...).calculate_position_rating(position_type)
CalculatePositionRating ==
    /\ call = NoCall
    /\ ~IsScraperRecord(player_data)
    /\ \E position_type \in PositionTypes :
          call' = [op |-> "calculate_position_rating", position |-> position_type,
                   ret |-> calculate_position_rating(player_stat(player_data), position_type)]
    /\ UNCHANGED <<player_data, args, soup, market_vars, opponent_cache, roster_vars>>

NextRate ==
    \/ CalculatePlayerRating
    \/ DetermineBestPosition
    \/ CalculateAiRating
    \/ GuiDetermineBestPosition
    \/ CalculatePositionRating

SpecRate == InitRate /\ [][NextRate]_vars

----------------------------------------------------------------------------
(* The market page as a state machine: the site composes the page row by   *)
(* row, then _analyze_market_intelligently runs on it                      *)

\* the header row of the market table: 'име', 'възраст', 'att', 'мин. цена'
MarketHeader == <<k_ime, k_vazrast, k_att, k_min_cena>>

\* "10 000 000", "9 000 000", "5 000 000"
Price10M == <<"1", "0", " ", "0", "0", "0", " ", "0", "0", "0">>
Price9M == <<"9", " ", "0", "0", "0", " ", "0", "0", "0">>
Price5M == <<"5", " ", "0", "0", "0", " ", "0", "0", "0">>

\* the data rows the market page can hold: name, age, att, price
MarketRows ==
    { << <<"A">>, <<"2", "1">>, <<"6", "0">>, Price10M >>,
      << <<"B">>, <<"2", "5">>, <<"5", "0">>, Price10M >>,
      << <<"C">>, <<"3", "0">>, <<"7", "0">>, <<"0">> >>,
      << <<"D">>, <<"3", "0">>, <<"7", "0">>, <<"-">> >>,
      << <<"E">>, <<"3", "4">>, <<"7", "0">>,
         <<"2", "5", ",", "0", "0", "0", ",", "0", "0", "0">> >>,
      << <<"F">>, <<"-">>, <<"7", "0">>, Price5M >>,
      << <<"G">>, <<"2", "8">>, <<"8", "0">>, Price9M >>,
      << <<"H">>, <<"2", "0">>, <<"4", "0">>,
         <<"5", "nbsp", "0", "0", "0", "nbsp", "0", "0", "0">> >>,
      << <<"I">>, <<"2", "0">>, <<"7", "0">>,
         <<"c", "a", "nbsp", ":", "5", "0", "0", "0", "0", "0", "0">> >>,
      << <<"K">>, <<"3", "3">>, <<"8", "0">>, Price5M >>,
      << <<"U">>, <<"-">>, <<"-">>, Price5M >> }

\* the rows of a long market page, in the order the site lists them
TopRows ==
    << << <<"G">>, <<"2", "8">>, <<"8", "0">>, Price9M >>,
       << <<"E">>, <<"3", "4">>, <<"7", "0">>,
          <<"2", "5", ",", "0", "0", "0", ",", "0", "0", "0">> >>,
       << <<"A">>, <<"2", "1">>, <<"6", "0">>, Price10M >>,
       << <<"H">>, <<"2", "0">>, <<"4", "0">>,
          <<"5", "nbsp", "0", "0", "0", "nbsp", "0", "0", "0">> >> >>

\* the number of data rows of the market page
MaxMarketRows == 2
MaxTopRows == 11

InitMarket ==
    /\ player_data = <<>>
    /\ args = <<>>
    /\ call = NoCall
    /\ soup = << <<MarketHeader>> >>
    /\ market_data = <<>>
    /\ transfer_targets = <<>>
    /\ opponent_cache = <<>>
    /\ RosterIdle

\* the site adds a row to the market table
ServeMarketRow ==
    /\ call = NoCall
    /\ Len(soup[1]) - 1 < MaxMarketRows
    /\ \E row \in MarketRows : soup' = <<Append(soup[1], row)>>
    /\ UNCHANGED <<player_data, args, call, market_vars, opponent_cache, roster_vars>>

\* the site adds a row to a long market table, keeping its listing order
ServeListedRow ==
    /\ call = NoCall
    /\ Len(soup[1]) - 1 < MaxTopRows
    /\ \E k \in 1..Len(TopRows) :
          /\ \A j \in 1..(k - 1) : soup[1][Len(soup[1])] # TopRows[j]
          /\ soup' = <<Append(soup[1], TopRows[k])>>
    /\ UNCHANGED <<player_data, args, call, market_vars, opponent_cache, roster_vars>>

\* _analyze_market_intelligently(soup)
AnalyzeMarketIntelligently ==
    /\ call = NoCall
    /\ LET players == market_players(soup)
       IN  \E targets \in analyze_market_opportunities(players) :
              /\ market_data' = players
              /\ transfer_targets' = targets
              /\ call' = [op |-> "analyze_market_intelligently",
                          ret |-> Len(players) > 0]
    /\ UNCHANGED <<player_data, args, soup, opponent_cache, roster_vars>>

NextMarket ==
    \/ ServeMarketRow
    \/ AnalyzeMarketIntelligently

SpecMarket == InitMarket /\ [][NextMarket]_vars

NextMarketTop ==
    \/ ServeListedRow
    \/ AnalyzeMarketIntelligently

SpecMarketTop == InitMarket /\ [][NextMarketTop]_vars

----------------------------------------------------------------------------
(* _get_transfer_recommendation as a pure function                         *)

RecommendationRatings == {0, 400, 500, 510, 600, 610, 700, 710, 1000}
RecommendationPrices == {5000000, 10000000, 20000000, 25000000}
RecommendationAges == {18, 21, 22, 30, 32, 33, 40}

InitRecommend ==
    /\ player_data = <<>>
    /\ args \in [rating : RecommendationRatings, price : RecommendationPrices,
                 age : RecommendationAges]
    /\ call = NoCall
    /\ soup = <<>>
    /\ market_data = <<>>
    /\ transfer_targets = <<>>
    /\ opponent_cache = <<>>
    /\ RosterIdle

\* self._get_transfer_recommendation(rating, price, age)
GetTransferRecommendation ==
    /\ call = NoCall
    /\ call' = [op |-> "get_transfer_recommendation",
                ret |-> get_transfer_recommendation(args.rating, args.price, args.age)]
    /\ UNCHANGED <<player_data, args, soup, market_vars, opponent_cache, roster_vars>>

NextRecommend == GetTransferRecommendation

SpecRecommend == InitRecommend /\ [][NextRecommend]_vars

----------------------------------------------------------------------------
(* OpponentIntelligence (hockey_arena_master_gui.py).  strength_rating is  *)
(* in tenths, win_probability in hundredths; the texts of weaknesses,      *)
(* strengths and instructions are named by what they say                   *)

k_position == <<"p", "o", "s", "i", "t", "i", "o", "n">>
k_points == <<"p", "o", "i", "n", "t", "s">>
k_goals_for == <<"g", "o", "a", "l", "s", "_", "f", "o", "r">>
k_goals_against == <<"g", "o", "a", "l", "s", "_", "a", "g", "a", "i", "n", "s", "t">>

\* the text after the sign of an integer literal: digits, single
\* underscores allowed between them
IsLiteralBody(body) ==
    /\ body # <<>>
    /\ IsDigit(body[1])
    /\ IsDigit(body[Len(body)])
    /\ \A i \in 1..Len(body) : IsDigit(body[i]) \/ body[i] = "_"
    /\ \A i \in 1..(Len(body) - 1) : ~(body[i] = "_" /\ body[i + 1] = "_")

\* the value of a literal from its sign and the text after it
signed_int(sign, body) ==
    IF ~IsLiteralBody(body) THEN <<>>
    ELSE IF sign = "-" THEN <<0 - IntOfDigits(RemoveChar(body, "_"))>>
    ELSE <<IntOfDigits(RemoveChar(body, "_"))>>

\* int() of a text without blanks around it
int_of_stripped(stripped) ==
    IF stripped # <<>> /\ Head(stripped) \in {"+", "-"}
    THEN signed_int(Head(stripped), Tail(stripped))
    ELSE signed_int("+", stripped)

\* int(text): <<n>>, or <<>> when it raises ValueError.  A literal is an
\* optional sign and digits, blanks around it ignored
py_int(text) == int_of_stripped(strip(text))

\* team_name.lower() in cell.get_text().lower() for a cell of the row
row_names_team(cells, team_name) ==
    \E i \in 1..Len(cells) : Contains(lower(cells[i]), lower(team_name))

\* the dict _find_team_in_standings returns for the row it stops at
standings_entry(cells) ==
    LET row_data == [i \in 1..Len(cells) |-> strip(cells[i])]
    IN  << [key |-> k_position,
            val |-> StrVal(IF row_data # <<>> THEN row_data[1]
                           ELSE <<"U", "n", "k", "n", "o", "w", "n">>)],
           [key |-> k_points,
            val |-> StrVal(IF Len(row_data) > 2 THEN row_data[3] ELSE <<"0">>)],
           [key |-> k_goals_for,
            val |-> StrVal(IF Len(row_data) > 3 THEN row_data[4] ELSE <<"0">>)],
           [key |-> k_goals_against,
            val |-> StrVal(IF Len(row_data) > 4 THEN row_data[5] ELSE <<"0">>)] >>

\* _find_team_in_standings(soup, team_name): the first row, in document
\* order, with a cell that holds the name; {} when there is none
RECURSIVE find_team_in_standings(_, _)
find_team_in_standings(tables, team_name) ==
    IF tables = <<>> THEN <<>>
    ELSE LET table == Head(tables)
             hits == {r \in 1..Len(table) : row_names_team(table[r], team_name)}
         IN  IF hits # {}
             THEN standings_entry(table[CHOOSE r \in hits : \A q \in hits : r <= q])
             ELSE find_team_in_standings(Tail(tables), team_name)

\* _gather_opponent_data(opponent_name): league_position stays None when the
\* request for the standings page raises
gather_opponent_data(tables, opponent_name, response) ==
    [league_position |->
        IF response = "ok"
        THEN [t |-> "dict", d |-> find_team_in_standings(tables, opponent_name)]
        ELSE [t |-> "None", d |-> <<>>]]

\* `if league_pos:`
truthy(league_pos) == league_pos.t = "dict" /\ league_pos.d # <<>>

\* int(re.search(r'\d+', league_pos.get('position', '10')).group()): <<n>>,
\* or <<>> when there is no digit and .group() raises
league_position_number(league_pos) ==
    LET found == findall_digits(py_str(dict_get(league_pos.d, k_position,
                                                StrVal(<<"1", "0">>))))
    IN  IF found = <<>> THEN <<>> ELSE <<IntOfDigits(found[1])>>

\* position_factor without max(0, ...)
position_factor_unfloored(position) ==
    IF position = <<>> THEN 0 ELSE (20 - position[1]) * 25

\* position_factor = max(0, (20 - position) * 2.5), in tenths; nothing is
\* added when the position did not parse
position_factor(position) ==
    IF position = <<>> THEN 0 ELSE Max(0, (20 - position[1]) * 25)

\* _calculate_team_strength(data), in tenths
calculate_team_strength(data) ==
    Min(1000, Max(0, IF truthy(data.league_position)
                     THEN 500 + position_factor(league_position_number(data.league_position))
                     ELSE 500))

\* the if/elif of _predict_tactics with >= in place of >
compare_goals_at_least(goals_for, goals_against) ==
    IF goals_for = <<>> \/ goals_against = <<>> THEN "unknown"
    ELSE IF 10 * goals_for[1] >= 12 * goals_against[1] THEN "offensive"
    ELSE IF 10 * goals_against[1] >= 12 * goals_for[1] THEN "defensive"
    ELSE "balanced"

\* the try block of _predict_tactics: a goal total that int() refused ends
\* it with 'unknown'; goals_for > goals_against * 1.2 is
\* 10 * goals_for > 12 * goals_against
compare_goals(goals_for, goals_against) ==
    IF goals_for = <<>> \/ goals_against = <<>> THEN "unknown"
    ELSE IF 10 * goals_for[1] > 12 * goals_against[1] THEN "offensive"
    ELSE IF 10 * goals_against[1] > 12 * goals_for[1] THEN "defensive"
    ELSE "balanced"

\* _predict_tactics(data)
predict_tactics(data) ==
    IF truthy(data.league_position)
    THEN compare_goals(
            py_int(py_str(dict_get(data.league_position.d, k_goals_for, StrVal(<<"0">>)))),
            py_int(py_str(dict_get(data.league_position.d, k_goals_against, StrVal(<<"0">>)))))
    ELSE "unknown"

\* _identify_key_players(data)
identify_key_players == <<"Unknown Player 1", "Unknown Player 2">>

\* the weakness that goes with a tendency
tendency_weakness(tactical_tendency) ==
    IF tactical_tendency = "offensive" THEN <<"defence_open_to_counter_attacks">>
    ELSE IF tactical_tendency = "defensive" THEN <<"weak_in_attack_and_finishing">>
    ELSE <<>>

\* the weaknesses that go with a position
position_weaknesses(position) ==
    IF position # <<>> /\ position[1] > 10
    THEN <<"weak_team_overall", "inexperienced_players">>
    ELSE <<>>

\* _find_weaknesses(data)
find_weaknesses(data) ==
    tendency_weakness(predict_tactics(data))
    \o (IF truthy(data.league_position)
        THEN position_weaknesses(league_position_number(data.league_position))
        ELSE <<>>)

\* the strength that goes with a tendency
tendency_strength(tactical_tendency) ==
    IF tactical_tendency = "offensive" THEN <<"strong_attack_and_scoring">>
    ELSE IF tactical_tendency = "defensive" THEN <<"stable_defence">>
    ELSE <<>>

\* the strengths that go with a position
position_strengths(position) ==
    IF position # <<>> /\ position[1] <= 5
    THEN <<"top_team_of_the_league", "experienced_players">>
    ELSE <<>>

\* _find_strengths(data)
find_strengths(data) ==
    tendency_strength(predict_tactics(data))
    \o (IF truthy(data.league_position)
        THEN position_strengths(league_position_number(data.league_position))
        ELSE <<>>)

\* our_strength = 55.0, in tenths
our_strength == 550

\* _calculate_win_probability with the two teams taken as equals
calculate_win_probability_even(analysis) ==
    Max(500, Min(9500, 5000 + (500 - analysis.strength_rating) * 8))

\* _calculate_win_probability with the difference of the strengths reversed
calculate_win_probability_reversed(analysis) ==
    Max(500, Min(9500, 5000 + (analysis.strength_rating - our_strength) * 8))

\* _calculate_win_probability(analysis), in hundredths:
\* max(5, min(95, 50.0 + (our_strength - opponent_strength) * 0.8))
calculate_win_probability(analysis) ==
    Max(500, Min(9500, 5000 + (our_strength - analysis.strength_rating) * 8))

\* _generate_counter_tactics(analysis)
generate_counter_tactics(analysis) ==
    IF analysis.tactical_tendency = "offensive"
    THEN [recommended_formation |-> "defensive", focus |-> "counter_attacks",
          specialization |-> "counter_attacks"]
    ELSE IF analysis.tactical_tendency = "defensive"
    THEN [recommended_formation |-> "offensive", focus |-> "break_defense",
          specialization |-> "short_passes"]
    ELSE [recommended_formation |-> "balanced", focus |-> "adapt",
          specialization |-> "flexible"]

\* the texts that hold the word for defence, and those that hold the word
\* for attack
MentionsDefence == {"defence_open_to_counter_attacks", "stable_defence"}
MentionsAttack == {"weak_in_attack_and_finishing", "strong_attack_and_scoring"}

\* the loop over weaknesses of _generate_match_instructions
RECURSIVE weakness_instructions(_)
weakness_instructions(weaknesses) ==
    IF weaknesses = <<>> THEN <<>>
    ELSE (IF Head(weaknesses) \in MentionsDefence THEN <<"attack_aggressively">>
          ELSE IF Head(weaknesses) \in MentionsAttack THEN <<"play_steady_in_defence">>
          ELSE <<>>)
         \o weakness_instructions(Tail(weaknesses))

\* the loop over strengths of _generate_match_instructions
RECURSIVE strength_instructions(_)
strength_instructions(strengths) ==
    IF strengths = <<>> THEN <<>>
    ELSE (IF Head(strengths) \in MentionsAttack THEN <<"beware_of_strong_attack">>
          ELSE IF Head(strengths) \in MentionsDefence THEN <<"look_for_rare_chances">>
          ELSE <<>>)
         \o strength_instructions(Tail(strengths))

\* _generate_match_instructions(analysis)
generate_match_instructions(analysis) ==
    weakness_instructions(analysis.weaknesses)
    \o strength_instructions(analysis.strengths)
    \o (IF analysis.win_probability > 7000 THEN <<"play_with_confidence">>
        ELSE IF analysis.win_probability < 3000 THEN <<"give_the_maximum">>
        ELSE <<>>)

\* the analysis dict as analyze_opponent first builds it
initial_analysis(opponent_name, opponent_data) ==
    [name |-> opponent_name,
     strength_rating |-> calculate_team_strength(opponent_data),
     tactical_tendency |-> predict_tactics(opponent_data),
     key_players |-> identify_key_players,
     weaknesses |-> find_weaknesses(opponent_data),
     strengths |-> find_strengths(opponent_data),
     win_probability |-> 0,
     recommended_tactics |-> <<>>,
     match_instructions |-> <<>>]

\* analysis['win_probability'] = self._calculate_win_probability(analysis)
set_win_probability(analysis) ==
    [analysis EXCEPT !.win_probability = calculate_win_probability(analysis)]

\* analysis['recommended_tactics'] = self._generate_counter_tactics(analysis)
set_recommended_tactics(analysis) ==
    [analysis EXCEPT !.recommended_tactics = generate_counter_tactics(analysis)]

\* analysis['match_instructions'] = self._generate_match_instructions(analysis)
set_match_instructions(analysis) ==
    [analysis EXCEPT !.match_instructions = generate_match_instructions(analysis)]

\* the analysis analyze_opponent caches and returns
opponent_analysis(opponent_name, opponent_data) ==
    set_match_instructions(set_recommended_tactics(set_win_probability(
        initial_analysis(opponent_name, opponent_data))))

----------------------------------------------------------------------------
(* The opponent analysis as a state machine: the site composes the         *)
(* standings page row by row, then opponents are analysed                  *)

\* the rows the standings table can hold: position, team, points, goals
\* for, goals against
StandingsRows ==
    { << <<"3">>, <<"A", "B">>, <<"3", "0">>, <<"8", "0">>, <<"4", "0">> >>,
      << <<"1", "2", ".">>, <<"B">>, <<"1", "0">>, <<"4", "0">>, <<"8", "0">> >>,
      << <<"2", "5">>, <<"B">>, <<"5">>, <<"5", "0">>, <<"5", "0">> >>,
      << <<"1">>, <<"A", "B">>, <<"4", "0">>, <<"8", "0", ":", "4", "0">>, <<"1", "2">> >>,
      << <<"A", "B">>, <<"7">> >>,
      << <<"5">>, <<"C">>, <<"2", "0">>, <<"6", "0">>, <<"5", "0">> >>,
      << <<"nbsp", "7">>, <<"A", "B">>, <<"9">>, <<"+", "6", "0">>, <<"5", "0">> >>,
      << <<"0">>, <<"B">>, <<"6", "0">>, <<"9", "0">>, <<"3", "0">> >> }

\* the opponents asked about; the second name is part of the first
OpponentNames == {<<"A", "B">>, <<"B">>}

\* the strength of our own team as a caller reckons it, in tenths;
\* analyze_opponent has no parameter that takes it
CallerStrengths == {450, 550, 700}

\* the number of rows of the standings table
MaxStandingsRows == 2

InitOpponent ==
    /\ player_data = <<>>
    /\ args \in [our_strength : CallerStrengths]
    /\ call = NoCall
    /\ soup = << <<>> >>
    /\ market_data = <<>>
    /\ transfer_targets = <<>>
    /\ opponent_cache = <<>>
    /\ RosterIdle

\* the site adds a row to the standings table
ServeStandingsRow ==
    /\ DOMAIN opponent_cache = {}
    /\ Len(soup[1]) < MaxStandingsRows
    /\ \E row \in StandingsRows : soup' = <<Append(soup[1], row)>>
    /\ UNCHANGED <<player_data, args, call, market_vars, opponent_cache, roster_vars>>

\* analyze_opponent without the test of the cache: every call gathers and
\* stores again
AnalyzeOpponentAfresh(opponent_name) ==
    /\ \E response \in {"ok", "error"} :
          /\ opponent_cache' =
                (opponent_name :>
                    opponent_analysis(opponent_name,
                                      gather_opponent_data(soup, opponent_name, response)))
                @@ opponent_cache
          /\ call' = [op |-> "analyze_opponent", name |-> opponent_name,
                      data |-> gather_opponent_data(soup, opponent_name,
                                                    response).league_position,
                      ret |-> opponent_analysis(
                                  opponent_name,
                                  gather_opponent_data(soup, opponent_name, response))]
    /\ UNCHANGED <<player_data, args, soup, market_vars, roster_vars>>

\* analyze_opponent(opponent_name); data is the league_position that was
\* gathered for this call, kept beside what the call returned
AnalyzeOpponent(opponent_name) ==
    /\ IF opponent_name \in DOMAIN opponent_cache
       THEN /\ call' = [op |-> "analyze_opponent", name |-> opponent_name,
                        data |-> [t |-> "cached", d |-> <<>>],
                        ret |-> opponent_cache[opponent_name]]
            /\ UNCHANGED opponent_cache
       ELSE \E response \in {"ok", "error"} :
               LET opponent_data == gather_opponent_data(soup, opponent_name, response)
                   analysis == opponent_analysis(opponent_name, opponent_data)
               IN  /\ opponent_cache' = (opponent_name :> analysis) @@ opponent_cache
                   /\ call' = [op |-> "analyze_opponent", name |-> opponent_name,
                               data |-> opponent_data.league_position,
                               ret |-> analysis]
    /\ UNCHANGED <<player_data, args, soup, market_vars, roster_vars>>

NextOpponent ==
    \/ ServeStandingsRow
    \/ \E opponent_name \in OpponentNames : AnalyzeOpponent(opponent_name)

SpecOpponent == InitOpponent /\ [][NextOpponent]_vars

----------------------------------------------------------------------------
(* _assess_potential (hockey_arena_master_gui.py) as a pure function       *)

k_age == <<"a", "g", "e">>

\* _assess_potential with every breakpoint taken as inclusive
assess_potential_inclusive(pd) ==
    IF dict_get(pd, k_age, IntVal(25)).i <= 20 THEN "Very High"
    ELSE IF dict_get(pd, k_age, IntVal(25)).i <= 23 THEN "High"
    ELSE IF dict_get(pd, k_age, IntVal(25)).i <= 27 THEN "Good"
    ELSE IF dict_get(pd, k_age, IntVal(25)).i <= 30 THEN "Medium"
    ELSE IF dict_get(pd, k_age, IntVal(25)).i <= 33 THEN "Low"
    ELSE "Very Low"

\* the band of an age with the last breakpoint one year late
potential_of_age_low_at_33(age) ==
    IF age < 20 THEN "Very High"
    ELSE IF age < 23 THEN "High"
    ELSE IF age < 27 THEN "Good"
    ELSE IF age < 30 THEN "Medium"
    ELSE IF age < 34 THEN "Low"
    ELSE "Very Low"

\* the if/elif ladder of _assess_potential
potential_of_age(age) ==
    IF age < 20 THEN "Very High"
    ELSE IF age < 23 THEN "High"
    ELSE IF age < 27 THEN "Good"
    ELSE IF age < 30 THEN "Medium"
    ELSE IF age < 33 THEN "Low"
    ELSE "Very Low"

\* _assess_potential(player_data): age = player_data.get('age', 25)
assess_potential(pd) == potential_of_age(dict_get(pd, k_age, IntVal(25)).i)

\* the greatest age of a record
MaxAge == 60

\* the records _assess_potential is called on: 'age' is an int or missing
AgeRecords ==
    {<<>>} \cup {<<[key |-> k_age, val |-> IntVal(age)]>> : age \in 0..MaxAge}

InitPotential ==
    /\ player_data \in AgeRecords
    /\ args = <<>>
    /\ call = NoCall
    /\ soup = <<>>
    /\ market_data = <<>>
    /\ transfer_targets = <<>>
    /\ opponent_cache = <<>>
    /\ RosterIdle

\* self._assess_potential(player_data)
AssessPotential ==
    /\ call = NoCall
    /\ call' = [op |-> "assess_potential", ret |-> assess_potential(player_data)]
    /\ UNCHANGED <<player_data, args, soup, market_vars, opponent_cache, roster_vars>>

NextPotential == AssessPotential

SpecPotential == InitPotential /\ [][NextPotential]_vars

----------------------------------------------------------------------------
(* HockeyArenaMasterAI._extract_our_players and what it calls.  A float is *)
(* a value [t |-> "float"] with its tenths in i                            *)

FloatVal(tenths) == [t |-> "float", s |-> <<>>, i |-> tenths]

k_source_table == <<"s", "o", "u", "r", "c", "e", "_", "t", "a", "b", "l", "e">>
k_row_number == <<"r", "o", "w", "_", "n", "u", "m", "b", "e", "r">>
k_name == <<"n", "a", "m", "e">>
k_form == <<"f", "o", "r", "m">>
k_energy == <<"e", "n", "e", "r", "g", "y">>
k_ai_rating == <<"a", "i", "_", "r", "a", "t", "i", "n", "g">>
k_best_position == <<"b", "e", "s", "t", "_", "p", "o", "s", "i", "t", "i", "o", "n">>
k_potential_assessment ==
    <<"p", "o", "t", "e", "n", "t", "i", "a", "l", "_",
      "a", "s", "s", "e", "s", "s", "m", "e", "n", "t">>

\* 'форма', 'енергия'
k_forma == <<"c_f", "c_o", "c_r", "c_m", "c_a">>
k_energiya == <<"c_e", "c_n", "c_e", "c_r", "c_g", "c_i", "c_ya">>

\* player_indicators of _extract_our_players
our_player_indicators ==
    <<k_ime, k_name, k_goa, k_def, k_att, k_sho, k_spe, k_str, k_pas, k_vazrast, k_age>>

\* ['goa', 'def', 'att', 'sho', 'spe', 'str', 'pas'], the test for an
\* attribute column
AttributeColumnKeys == <<k_goa, k_def, k_att, k_sho, k_spe, k_str, k_pas>>

\* the characters of a text the functions return as a whole
TextChars(text) ==
    CASE text = "Goalkeeper" -> <<"G", "o", "a", "l", "k", "e", "e", "p", "e", "r">>
      [] text = "Defender" -> <<"D", "e", "f", "e", "n", "d", "e", "r">>
      [] text = "Center" -> <<"C", "e", "n", "t", "e", "r">>
      [] text = "Forward" -> <<"F", "o", "r", "w", "a", "r", "d">>
      [] text = "Unknown" -> <<"U", "n", "k", "n", "o", "w", "n">>
      [] text = "Very High" -> <<"V", "e", "r", "y", " ", "H", "i", "g", "h">>
      [] text = "High" -> <<"H", "i", "g", "h">>
      [] text = "Good" -> <<"G", "o", "o", "d">>
      [] text = "Medium" -> <<"M", "e", "d", "i", "u", "m">>
      [] text = "Low" -> <<"L", "o", "w">>
      [] text = "Very Low" -> <<"V", "e", "r", "y", " ", "L", "o", "w">>
      [] text = "goalkeeper" -> <<"g", "o", "a", "l", "k", "e", "e", "p", "e", "r">>
      [] text = "defenseman" -> <<"d", "e", "f", "e", "n", "s", "e", "m", "a", "n">>
      [] text = "forward" -> <<"f", "o", "r", "w", "a", "r", "d">>
      [] text = "center" -> <<"c", "e", "n", "t", "e", "r">>
      [] text = "junior" -> <<"j", "u", "n", "i", "o", "r">>
      [] text = "young" -> <<"y", "o", "u", "n", "g">>
      [] text = "prime" -> <<"p", "r", "i", "m", "e">>
      [] text = "veteran" -> <<"v", "e", "t", "e", "r", "a", "n">>
      [] text = "senior" -> <<"s", "e", "n", "i", "o", "r">>

\* player_data[key] = int(first digit run of cell_text) when there is one
set_first_number(pd, key, cell_text) ==
    IF findall_digits(cell_text) # <<>>
    THEN dict_set(pd, key, IntVal(IntOfDigits(findall_digits(cell_text)[1])))
    ELSE pd

\* the body of the mapping loop of _extract_our_players for one cell
map_our_cell(pd, header, cell_text) ==
    IF cell_text = <<>> \/ cell_text \in {<<"-">>, <<"0">>} THEN pd
    ELSE IF ContainsAny(header, AttributeColumnKeys)
    THEN set_first_number(pd, header, cell_text)
    ELSE IF Contains(header, k_vazrast) \/ Contains(header, k_age)
    THEN set_first_number(pd, k_age, cell_text)
    ELSE IF Contains(header, k_forma) \/ Contains(header, k_form)
    THEN set_first_number(pd, k_form, cell_text)
    ELSE IF Contains(header, k_energiya) \/ Contains(header, k_energy)
    THEN set_first_number(pd, k_energy, cell_text)
    ELSE dict_set(pd, header, StrVal(cell_text))

\* the mapping loop of _extract_our_players over the first n cells of a row
RECURSIVE map_our_cells(_, _, _, _)
map_our_cells(pd, headers, cells, n) ==
    IF n = 0 THEN pd
    ELSE IF n <= Len(headers)
    THEN map_our_cell(map_our_cells(pd, headers, cells, n - 1), headers[n],
                      strip(cells[n]))
    ELSE map_our_cells(pd, headers, cells, n - 1)

\* the first loop of _extract_player_name: str(value) of the first key that
\* holds 'име' or 'name', <<>> when there is none
RECURSIVE name_by_key(_)
name_by_key(pd) ==
    IF pd = <<>> THEN <<>>
    ELSE IF Contains(lower(Head(pd).key), k_ime) \/ Contains(lower(Head(pd).key), k_name)
    THEN <<py_str(Head(pd).val)>>
    ELSE name_by_key(Tail(pd))

\* the second loop of _extract_player_name: the first str value longer than
\* 2 without a digit, <<>> when there is none
RECURSIVE name_by_value(_)
name_by_value(pd) ==
    IF pd = <<>> THEN <<>>
    ELSE IF /\ Head(pd).val.t = "str"
            /\ Len(Head(pd).val.s) > 2
            /\ \A i \in 1..Len(Head(pd).val.s) : ~IsDigit(Head(pd).val.s[i])
    THEN <<Head(pd).val.s>>
    ELSE name_by_value(Tail(pd))

\* f"Player_{player_data.get('row_number', 'Unknown')}"
synthesized_name(pd) ==
    <<"P", "l", "a", "y", "e", "r", "_">>
    \o py_str(dict_get(pd, k_row_number, StrVal(TextChars("Unknown"))))

\* _extract_player_name(player_data)
extract_player_name(pd) ==
    IF name_by_key(pd) # <<>> THEN name_by_key(pd)[1]
    ELSE IF name_by_value(pd) # <<>> THEN name_by_value(pd)[1]
    ELSE synthesized_name(pd)

\* player_data['name'] = self._extract_player_name(player_data)
with_name(pd) == dict_set(pd, k_name, StrVal(extract_player_name(pd)))

\* player_data['ai_rating'] = self._calculate_ai_rating(player_data)
with_ai_rating(pd) ==
    {dict_set(pd, k_ai_rating, FloatVal(r)) : r \in gui_calculate_ai_rating(pd)}

\* player_data['best_position'] = self._determine_best_position(player_data)
with_best_position(pd) ==
    {dict_set(pd, k_best_position, StrVal(TextChars(p))) :
        p \in gui_determine_best_position(pd)}

\* player_data['potential_assessment'] = self._assess_potential(player_data)
with_potential(pd) ==
    dict_set(pd, k_potential_assessment, StrVal(TextChars(assess_potential(pd))))

\* the records a mapped row of at least 5 entries can become
analyzed_player(pd) ==
    {with_potential(best) :
        best \in UNION {with_best_position(rated) : rated \in with_ai_rating(with_name(pd))}}

\* the dict a row starts as, and what the mapping loop makes of it
mapped_our_row(headers, cells, table_idx, row_idx) ==
    map_our_cells(<< [key |-> k_source_table, val |-> IntVal(table_idx)],
                     [key |-> k_row_number, val |-> IntVal(row_idx)] >>,
                  headers, cells, Len(cells))

\* what one row adds to players: nothing, or one record
our_row_players(headers, cells, table_idx, row_idx) ==
    IF Len(cells) < 3 THEN {<<>>}
    ELSE IF Len(mapped_our_row(headers, cells, table_idx, row_idx)) >= 5
    THEN {<<p>> : p \in analyzed_player(mapped_our_row(headers, cells, table_idx, row_idx))}
    ELSE {<<>>}

\* the loop over rows[1:] of a player table, up to row n of the table
RECURSIVE our_table_players(_, _, _, _)
our_table_players(headers, table, table_idx, n) ==
    IF n <= 1 THEN {<<>>}
    ELSE {before \o this :
            before \in our_table_players(headers, table, table_idx, n - 1),
            this \in our_row_players(headers, table[n], table_idx, n - 1)}

\* the test that a table is a player table
is_our_player_table(table) ==
    /\ Len(table) >= 2
    /\ ContainsAny(join_blank(table_headers(table)), our_player_indicators)

\* _extract_our_players(soup): the lists it can return, over the first n
\* tables
RECURSIVE extract_our_players(_, _)
extract_our_players(tables, n) ==
    IF n = 0 THEN {<<>>}
    ELSE IF is_our_player_table(tables[n])
    THEN {before \o these :
            before \in extract_our_players(tables, n - 1),
            these \in our_table_players(table_headers(tables[n]), tables[n], n,
                                        Len(tables[n]))}
    ELSE extract_our_players(tables, n - 1)

----------------------------------------------------------------------------
(* HockeyArenaMasterAI._extract_team_info and analyze_our_team.  The text  *)
(* of a page is one sequence of characters, "\n" its line break            *)

k_team_name == <<"t", "e", "a", "m", "_", "n", "a", "m", "e">>
k_league == <<"l", "e", "a", "g", "u", "e">>
k_money == <<"m", "o", "n", "e", "y">>
k_players_count ==
    <<"p", "l", "a", "y", "e", "r", "s", "_", "c", "o", "u", "n", "t">>
k_fans == <<"f", "a", "n", "s">>

\* the labels of patterns, in lower case: 'Мено тіму', 'Ліга', 'Готовість',
\* 'Рочет граців', 'Фанклуб'
label_team_name == <<"c_m", "c_e", "c_n", "c_o", " ", "c_t", "c_ii", "c_m", "c_u">>
label_league == <<"c_l", "c_ii", "c_g", "c_a">>
label_money == <<"c_g", "c_o", "c_t", "c_o", "c_v", "c_ii", "c_s", "c_t", "c_soft">>
label_players_count ==
    <<"c_r", "c_o", "c_ch", "c_e", "c_t", " ", "c_g", "c_r", "c_a", "c_ts", "c_ii", "c_v">>
label_fans == <<"c_f", "c_a", "c_n", "c_k", "c_l", "c_u", "c_b">>

\* patterns, in the order of the dict
team_info_patterns ==
    << [key |-> k_team_name, label |-> label_team_name],
       [key |-> k_league, label |-> label_league],
       [key |-> k_money, label |-> label_money],
       [key |-> k_players_count, label |-> label_players_count],
       [key |-> k_fans, label |-> label_fans] >>

\* the class [:\s]
ColonOrSpace == WhitespaceClass \cup {":"}

\* the label stands at position p of the text, case ignored
label_at(text, label, p) ==
    /\ p + Len(label) - 1 <= Len(text)
    /\ lower(SubSeq(text, p, p + Len(label) - 1)) = label

\* where ([^\n]+) can start after a label that ends before q: [:\s]* takes
\* all it can and gives back until a character other than "\n" follows
group_starts(text, q) ==
    {g \in q..Len(text) :
        /\ text[g] # "\n"
        /\ \A j \in q..(g - 1) : text[j] \in ColonOrSpace}

\* the start the greedy [:\s]* leaves to the group: the last one
group_start(text, q) ==
    CHOOSE g \in group_starts(text, q) : \A h \in group_starts(text, q) : h <= g

\* ([^\n]+) from g: up to the line break or the end
RECURSIVE rest_of_line(_, _)
rest_of_line(text, g) ==
    IF g > Len(text) \/ text[g] = "\n" THEN <<>>
    ELSE <<text[g]>> \o rest_of_line(text, g + 1)

\* the positions where the pattern of a label matches
match_positions(text, label) ==
    {p \in 1..Len(text) :
        label_at(text, label, p) /\ group_starts(text, p + Len(label)) # {}}

\* re.search(pattern, text, re.IGNORECASE).group(1).strip() at the leftmost
\* match
first_group(text, label) ==
    strip(rest_of_line(text,
        group_start(text,
            (CHOOSE p \in match_positions(text, label) :
                \A r \in match_positions(text, label) : p <= r) + Len(label))))

\* the loop over patterns, up to pattern n
RECURSIVE team_info_upto(_, _)
team_info_upto(text, n) ==
    IF n = 0 THEN <<>>
    ELSE IF match_positions(text, team_info_patterns[n].label) # {}
    THEN dict_set(team_info_upto(text, n - 1), team_info_patterns[n].key,
                  StrVal(first_group(text, team_info_patterns[n].label)))
    ELSE team_info_upto(text, n - 1)

\* _extract_team_info(soup), soup.get_text() being text
extract_team_info(text) == team_info_upto(text, Len(team_info_patterns))

----------------------------------------------------------------------------
(* The team page and the summary page the site serves, and analyze_our_team *)

\* header rows of the team page: 'name' 'age' 'att' 'def'; 'club' 'poz' 'att'
\* 'note'; 'hráč' 'streľba' 'sila' 'vek'; 'club' 'poz' 'city' 'note';
\* 'име' 'възраст' 'att' 'def'
OurHeaders ==
    { <<k_name, k_age, k_att, k_def>>,
      <<k_ime, k_vazrast, k_att, k_def>>,
      << <<"c", "l", "u", "b">>, <<"p", "o", "z">>, k_att, <<"n", "o", "t", "e">> >>,
      << <<"h", "r", "a_acute", "c_caron">>, <<"s", "t", "r", "e", "l_caron", "b", "a">>,
         <<"s", "i", "l", "a">>, <<"v", "e", "k">> >>,
      << <<"c", "l", "u", "b">>, <<"p", "o", "z">>, <<"c", "i", "t", "y">>,
         <<"n", "o", "t", "e">> >> }

\* data rows of the team page: 'Ivan' '21' '70' '40'; 'Ivan' '21' '0' '40';
\* 'GK' '21' '70' '40'; 'GK' '0' '70' '-'; 'Ivan' '21'; 'Ivanov' '24' '70' '40'
OurRows ==
    { << <<"I", "v", "a", "n">>, <<"2", "1">>, <<"7", "0">>, <<"4", "0">> >>,
      << <<"I", "v", "a", "n", "o", "v">>, <<"2", "4">>, <<"7", "0">>, <<"4", "0">> >>,
      << <<"I", "v", "a", "n">>, <<"2", "1">>, <<"0">>, <<"4", "0">> >>,
      << <<"G", "K">>, <<"2", "1">>, <<"7", "0">>, <<"4", "0">> >>,
      << <<"G", "K">>, <<"0">>, <<"7", "0">>, <<"-">> >>,
      << <<"I", "v", "a", "n">>, <<"2", "1">> >> }

\* texts of the summary page: empty; 'Ліга: I.1' and 'Фанклуб: 250' on two
\* lines; 'Ліга:' and 'Фанклуб' on two lines
SummaryTexts ==
    { <<>>,
      <<"C_l", "c_ii", "c_g", "c_a", ":", " ", "I", ".", "1", "\n",
        "C_f", "c_a", "c_n", "c_k", "c_l", "c_u", "c_b", ":", " ", "2", "5", "0">>,
      <<"C_l", "c_ii", "c_g", "c_a", ":", "\n",
        "C_f", "c_a", "c_n", "c_k", "c_l", "c_u", "c_b">> }

\* what session.get(url, timeout=15) does: it raises, or it returns the page
Raises == [raises |-> TRUE, body |-> <<>>]
Response(body) == [raises |-> FALSE, body |-> body]

players_url ==
    <<"m", "a", "n", "a", "g", "e", "r", "_", "t", "e", "a", "m", "_",
      "p", "l", "a", "y", "e", "r", "s", ".", "p", "h", "p">>
info_url ==
    <<"m", "a", "n", "a", "g", "e", "r", "_", "s", "u", "m", "m", "a", "r", "y",
      ".", "p", "h", "p">>

MaxOurRows == 2

InitOurTeam ==
    /\ player_data = <<>>
    /\ args = <<>>
    /\ call = NoCall
    /\ soup \in {<< <<headers>> >> : headers \in OurHeaders}
    /\ market_data = <<>>
    /\ transfer_targets = <<>>
    /\ opponent_cache = <<>>
    /\ RosterIdle

\* the site lists one more player on the team page
ServeOurRow ==
    /\ requested = <<>>
    /\ Len(soup[1]) <= MaxOurRows
    /\ \E cells \in OurRows : soup' = <<Append(soup[1], cells)>>
    /\ UNCHANGED <<player_data, args, call, market_vars, opponent_cache, roster_vars>>

\* analyze_our_team(): the request for the team page raises and the except
\* clause ends the method
AnalyzeOurTeamPlayersFail ==
    /\ requested = <<>>
    /\ requested' = <<players_url>>
    /\ call' = [op |-> "analyze_our_team", players |-> Raises, info |-> Raises]
    /\ UNCHANGED <<player_data, args, soup, market_vars, opponent_cache,
                   our_players, team_info, players_vars, pages_vars, gui>>

\* analyze_our_team(): the team page arrives and the request for the summary
\* page raises
AnalyzeOurTeamInfoFails ==
    /\ requested = <<>>
    /\ requested' = <<players_url, info_url>>
    /\ our_players' \in extract_our_players(soup, Len(soup))
    /\ call' = [op |-> "analyze_our_team", players |-> Response(soup), info |-> Raises]
    /\ UNCHANGED <<player_data, args, soup, market_vars, opponent_cache,
                   team_info, players_vars, pages_vars, gui>>

\* analyze_our_team(): both pages arrive
AnalyzeOurTeamComplete ==
    /\ requested = <<>>
    /\ requested' = <<players_url, info_url>>
    /\ our_players' \in extract_our_players(soup, Len(soup))
    /\ \E text \in SummaryTexts :
          /\ team_info' = extract_team_info(text)
          /\ call' = [op |-> "analyze_our_team", players |-> Response(soup),
                      info |-> Response(text)]
    /\ UNCHANGED <<player_data, args, soup, market_vars, opponent_cache, players_vars,
                   pages_vars, gui>>

AnalyzeOurTeam ==
    \/ AnalyzeOurTeamPlayersFail
    \/ AnalyzeOurTeamInfoFails
    \/ AnalyzeOurTeamComplete

NextOurTeam == ServeOurRow \/ AnalyzeOurTeam

SpecOurTeam == InitOurTeam /\ [][NextOurTeam]_vars

----------------------------------------------------------------------------
(* IntelligentHockeyAnalyzer._analyze_players_intelligently.  A reading of *)
(* datetime.now() is a number of seconds                                   *)

k_source == <<"s", "o", "u", "r", "c", "e">>
k_table == <<"t", "a", "b", "l", "e">>
k_row == <<"r", "o", "w">>
k_analyzed_at == <<"a", "n", "a", "l", "y", "z", "e", "d", "_", "a", "t">>
k_suggested_position ==
    <<"s", "u", "g", "g", "e", "s", "t", "e", "d", "_",
      "p", "o", "s", "i", "t", "i", "o", "n">>
k_age_category ==
    <<"a", "g", "e", "_", "c", "a", "t", "e", "g", "o", "r", "y">>

\* 'players_analysis'
players_analysis ==
    <<"p", "l", "a", "y", "e", "r", "s", "_", "a", "n", "a", "l", "y", "s", "i", "s">>

\* 'возраст'
k_vozrast == <<"c_v", "c_o", "c_z", "c_r", "c_a", "c_s", "c_t">>

\* player_indicators of _analyze_players_intelligently
scraper_player_indicators ==
    <<k_ime, k_name, k_vozrast, k_age, k_goa, k_def, k_att, k_sho, k_spe, k_str, k_pas>>

\* datetime.isoformat() of a reading within the first minute of a day
isoformat(now) ==
    <<"2", "0", "2", "6", "-", "0", "1", "-", "0", "1", "T",
      "0", "0", ":", "0", "0", ":">>
    \o (IF now < 10 THEN <<"0">> ELSE <<>>) \o StrOfNat(now)

\* the mapping loop of a player row over its first n cells:
\* player_data[headers[col_idx]] = cell_text unless the text is '' or '-'
RECURSIVE map_player_cells(_, _, _, _)
map_player_cells(pd, headers, cells, n) ==
    IF n = 0 THEN pd
    ELSE IF n <= Len(headers) /\ strip(cells[n]) \notin {<<>>, <<"-">>}
    THEN dict_set(map_player_cells(pd, headers, cells, n - 1), headers[n],
                  StrVal(strip(cells[n])))
    ELSE map_player_cells(pd, headers, cells, n - 1)

\* the dict a row starts as, and what the mapping loop makes of it
mapped_player_row(headers, cells, table_idx, row_idx, now) ==
    map_player_cells(<< [key |-> k_source, val |-> StrVal(players_analysis)],
                        [key |-> k_table, val |-> IntVal(table_idx)],
                        [key |-> k_row, val |-> IntVal(row_idx)],
                        [key |-> k_analyzed_at, val |-> StrVal(isoformat(now))] >>,
                     headers, cells, Len(cells))

\* _extract_age(player_data): <<age>>, or <<>> for None
RECURSIVE extract_age(_)
extract_age(pd) ==
    IF pd = <<>> THEN <<>>
    ELSE IF /\ \/ Contains(lower(Head(pd).key), k_vazrast)
               \/ Contains(lower(Head(pd).key), k_age)
            /\ findall_digits(py_str(Head(pd).val)) # <<>>
    THEN <<IntOfDigits(findall_digits(py_str(Head(pd).val))[1])>>
    ELSE extract_age(Tail(pd))

\* _categorize_age(age)
categorize_age(age) ==
    IF age < 20 THEN "junior"
    ELSE IF age < 25 THEN "young"
    ELSE IF age < 30 THEN "prime"
    ELSE IF age < 35 THEN "veteran"
    ELSE "senior"

\* player_data['ai_rating'] = self.calculate_player_rating(player_data)
with_scraper_rating(pd) ==
    {dict_set(pd, k_ai_rating, FloatVal(r)) : r \in calculate_player_rating(pd, "forward")}

\* player_data['suggested_position'] = self._determine_best_position(player_data)
with_suggested_position(pd) ==
    {dict_set(pd, k_suggested_position,
              StrVal(TextChars(scraper_determine_best_position(ratings)))) :
        ratings \in BestPositionRatings(pd)}

\* age = self._extract_age(player_data); if age: player_data['age_category'] = ...
with_age_category(pd) ==
    IF extract_age(pd) # <<>> /\ extract_age(pd)[1] # 0
    THEN dict_set(pd, k_age_category, StrVal(TextChars(categorize_age(extract_age(pd)[1]))))
    ELSE pd

\* the records a mapped row of at least 5 entries can become
analyzed_scraper_player(pd) ==
    {with_age_category(positioned) :
        positioned \in UNION {with_suggested_position(rated) :
                                 rated \in with_scraper_rating(pd)}}

\* what one row appends to self.data['players']: nothing, or one record
player_row_records(headers, cells, table_idx, row_idx, now) ==
    IF Len(cells) < 3 THEN {<<>>}
    ELSE IF Len(mapped_player_row(headers, cells, table_idx, row_idx, now)) >= 5
    THEN {<<p>> : p \in analyzed_scraper_player(
                           mapped_player_row(headers, cells, table_idx, row_idx, now))}
    ELSE {<<>>}

\* the loop over rows[1:] of a player table, up to row n of the table; times
\* holds the reading of datetime.now() for each row of each table
RECURSIVE player_table_records(_, _, _, _, _)
player_table_records(headers, table, table_idx, n, times) ==
    IF n <= 1 THEN {<<>>}
    ELSE {before \o this :
            before \in player_table_records(headers, table, table_idx, n - 1, times),
            this \in player_row_records(headers, table[n], table_idx, n - 1,
                                        times[table_idx][n - 1])}

\* the test that a table is a player table
is_scraper_player_table(table) ==
    /\ Len(table) >= 2
    /\ ContainsAny(join_blank(table_headers(table)), scraper_player_indicators)

\* the records _analyze_players_intelligently(soup) can append, over the
\* first n tables
RECURSIVE analyzed_players(_, _, _)
analyzed_players(tables, n, times) ==
    IF n = 0 THEN {<<>>}
    ELSE IF is_scraper_player_table(tables[n])
    THEN {before \o these :
            before \in analyzed_players(tables, n - 1, times),
            these \in player_table_records(table_headers(tables[n]), tables[n], n,
                                           Len(tables[n]), times)}
    ELSE analyzed_players(tables, n - 1, times)

\* the readings the rows of the page can get: one per data row of each table,
\* none earlier than the one before it or than the last reading taken
RowTimes(tables, from, upto) ==
    {times \in [1..Len(tables) -> [1..MaxOurRows + 1 -> from..upto]] :
        /\ \A t \in 1..Len(tables) : \A r \in 1..MaxOurRows :
              times[t][r] <= times[t][r + 1]
        /\ \A t \in 1..(Len(tables) - 1) : times[t][MaxOurRows + 1] <= times[t + 1][1]}

\* the last reading of the clock, in seconds; the number of times the page is
\* analyzed
MaxClock == 1
MaxRuns == 2

InitPlayers == InitOurTeam

\* the site lists one more player on the team page
ServePlayersRow ==
    /\ call = NoCall
    /\ Len(soup[1]) <= MaxOurRows
    /\ \E cells \in OurRows : soup' = <<Append(soup[1], cells)>>
    /\ UNCHANGED <<player_data, args, call, market_vars, opponent_cache, roster_vars>>

\* the number of times the page has been analyzed
Runs == IF call = NoCall THEN 0 ELSE call.runs

\* _analyze_players_intelligently(soup)
AnalyzePlayersIntelligently ==
    /\ Runs < MaxRuns
    /\ \E times \in RowTimes(soup, clock, MaxClock) :
         \E found \in analyzed_players(soup, Len(soup), times) :
            /\ data_players' = data_players \o found
            /\ clock' = times[Len(soup)][MaxOurRows + 1]
            /\ call' = [op |-> "analyze_players_intelligently",
                        runs |-> Runs + 1,
                        players_found |-> Len(found),
                        ret |-> Len(found) > 0]
    /\ UNCHANGED <<player_data, args, soup, market_vars, opponent_cache, team_vars,
                   pages_vars, gui>>

NextPlayers == ServePlayersRow \/ AnalyzePlayersIntelligently

SpecPlayers == InitPlayers /\ [][NextPlayers]_vars

----------------------------------------------------------------------------
(* IntelligentHockeyAnalyzer._analyze_finances_intelligently.  The finance *)
(* page is a record: the text outside its tables and its tables; a list is *)
(* a value [t |-> "list"] with its items in s                              *)

ListVal(items) == [t |-> "list", s |-> items, i |-> 0]

k_amounts_BGN == <<"a", "m", "o", "u", "n", "t", "s", "_", "B", "G", "N">>
k_amounts_USD == <<"a", "m", "o", "u", "n", "t", "s", "_", "U", "S", "D">>
k_amounts_EUR == <<"a", "m", "o", "u", "n", "t", "s", "_", "E", "U", "R">>
k_amounts_millions ==
    <<"a", "m", "o", "u", "n", "t", "s", "_", "m", "i", "l", "l", "i", "o", "n", "s">>
k_financial_items ==
    <<"f", "i", "n", "a", "n", "c", "i", "a", "l", "_", "i", "t", "e", "m", "s">>
k_item == <<"i", "t", "e", "m">>
k_value == <<"v", "a", "l", "u", "e">>

\* money_patterns, in order: the key of the amounts, whether the number is
\* \d{1,3}(?:[\s,]\d{3})* (or \d+), and the alternatives after \s*, in lower
\* case, an optional last letter written as two alternatives, the longer first
money_patterns ==
    << [key |-> k_amounts_BGN, grouped |-> TRUE,
        units |-> << <<"c_l", "c_v">>, <<"c_l", "c_e", "c_v", "c_a">>, <<"b", "g", "n">> >>],
       [key |-> k_amounts_USD, grouped |-> TRUE,
        units |-> << <<"$">>, <<"u", "s", "d">>,
                     <<"c_d", "c_o", "c_l", "c_a", "c_r", "c_a">> >>],
       [key |-> k_amounts_EUR, grouped |-> TRUE,
        units |-> << <<"euro_sign">>, <<"e", "u", "r">>, <<"c_e", "c_v", "c_r", "c_o">> >>],
       [key |-> k_amounts_millions, grouped |-> FALSE,
        units |-> << <<"c_m", "c_i", "c_l", "c_i", "c_o", "c_n", "c_a">>,
                     <<"c_m", "c_i", "c_l", "c_i", "c_o", "c_n">>,
                     <<"m", "i", "l", "l", "i", "o", "n">> >>] >>

\* 'приход', 'разход', 'баланс', 'бюджет', 'income', 'expense'
financial_keywords ==
    << <<"c_p", "c_r", "c_i", "c_h", "c_o", "c_d">>,
       <<"c_r", "c_a", "c_z", "c_h", "c_o", "c_d">>,
       <<"c_b", "c_a", "c_l", "c_a", "c_n", "c_s">>,
       <<"c_b", "c_yu", "c_d", "c_zh", "c_e", "c_t">>,
       <<"i", "n", "c", "o", "m", "e">>,
       <<"e", "x", "p", "e", "n", "s", "e">> >>

\* text[q..q+n-1] are n digits
digits_at(text, q, n) ==
    /\ q + n - 1 <= Len(text)
    /\ \A j \in q..(q + n - 1) : IsDigit(text[j])

\* where (?:[\s,]\d{3})* can end when it starts at q
RECURSIVE group_ends(_, _)
group_ends(text, q) ==
    {q} \cup (IF /\ q <= Len(text)
                 /\ text[q] \in WhitespaceClass \cup {","}
                 /\ digits_at(text, q + 1, 3)
              THEN group_ends(text, q + 4)
              ELSE {})

\* where \s* ends when it takes all it can from q
RECURSIVE skip_whitespace(_, _)
skip_whitespace(text, q) ==
    IF q <= Len(text) /\ text[q] \in WhitespaceClass
    THEN skip_whitespace(text, q + 1)
    ELSE q

\* the alternatives that stand at q, case ignored
units_at(text, q, units) ==
    {u \in 1..Len(units) :
        /\ q + Len(units[u]) - 1 <= Len(text)
        /\ lower(SubSeq(text, q, q + Len(units[u]) - 1)) = units[u]}

\* where the number of a pattern can end when it starts at p, the unit
\* following after \s*: pairs of the length of the first run and the end
number_ends(text, p, pattern) ==
    IF pattern.grouped
    THEN {c \in (1..3) \X (p..(Len(text) + 1)) :
            /\ digits_at(text, p, c[1])
            /\ c[2] \in group_ends(text, p + c[1])
            /\ units_at(text, skip_whitespace(text, c[2]), pattern.units) # {}}
    ELSE {c \in (1..Len(text)) \X (p..(Len(text) + 1)) :
            /\ digits_at(text, p, c[1])
            /\ c[2] = p + c[1]
            /\ units_at(text, skip_whitespace(text, c[2]), pattern.units) # {}}

\* the end the greedy quantifiers prefer: the longest first run, then the
\* most groups
number_end(text, p, pattern) ==
    CHOOSE c \in number_ends(text, p, pattern) :
        \A d \in number_ends(text, p, pattern) :
            d[1] < c[1] \/ (d[1] = c[1] /\ d[2] <= c[2])

\* the first position after the match that starts at p
match_end(text, p, pattern) ==
    skip_whitespace(text, number_end(text, p, pattern)[2])
    + Len(pattern.units[
          CHOOSE u \in units_at(text, skip_whitespace(text, number_end(text, p, pattern)[2]),
                                pattern.units) :
              \A v \in units_at(text, skip_whitespace(text, number_end(text, p, pattern)[2]),
                                pattern.units) : u <= v])

\* re.findall(pattern, text, re.IGNORECASE) from position p on: the numbers
\* of the matches, which do not overlap
RECURSIVE findall_amounts(_, _, _)
findall_amounts(text, p, pattern) ==
    IF p > Len(text) THEN <<>>
    ELSE IF number_ends(text, p, pattern) # {}
    THEN <<SubSeq(text, p, number_end(text, p, pattern)[2] - 1)>>
         \o findall_amounts(text, match_end(text, p, pattern), pattern)
    ELSE findall_amounts(text, p + 1, pattern)

\* matches[:5]
first_five(matches) == SubSeq(matches, 1, Min(5, Len(matches)))

\* the loop over money_patterns, up to pattern n
RECURSIVE money_amounts(_, _)
money_amounts(text, n) ==
    IF n = 0 THEN <<>>
    ELSE IF findall_amounts(text, 1, money_patterns[n]) # <<>>
    THEN dict_set(money_amounts(text, n - 1), money_patterns[n].key,
                  ListVal(first_five(findall_amounts(text, 1, money_patterns[n]))))
    ELSE money_amounts(text, n - 1)

\* the loop over the rows of a table, up to row n: a row of two cells whose
\* first cell holds a financial keyword gives an item
RECURSIVE financial_rows(_, _)
financial_rows(table, n) ==
    IF n = 0 THEN <<>>
    ELSE IF /\ Len(table[n]) = 2
            /\ ContainsAny(lower(strip(table[n][1])), financial_keywords)
    THEN Append(financial_rows(table, n - 1),
                << [key |-> k_item, val |-> StrVal(strip(table[n][1]))],
                   [key |-> k_value, val |-> StrVal(strip(table[n][2]))] >>)
    ELSE financial_rows(table, n - 1)

\* financial_data: the loop over the tables, up to table n
RECURSIVE financial_data(_, _)
financial_data(tables, n) ==
    IF n = 0 THEN <<>>
    ELSE financial_data(tables, n - 1) \o financial_rows(tables[n], Len(tables[n]))

\* the text of str() of the dict _analyze_financial_health returns
FinancialHealthText ==
    <<"h", "e", "a", "l", "t", "h", "_", "s", "t", "a", "t", "u", "s", "'",
      "u", "n", "k", "n", "o", "w", "n", "'">>

\* the cells of a table, one per line
RECURSIVE cells_text(_)
cells_text(rows) ==
    IF rows = <<>> THEN <<>>
    ELSE (IF Head(rows) = <<>> THEN <<>>
          ELSE Head(Head(rows)) \o <<"\n">> \o cells_text(<<Tail(Head(rows))>>))
         \o cells_text(Tail(rows))

\* soup.get_text(): the text outside the tables, then each table's cells
RECURSIVE tables_text(_)
tables_text(tables) ==
    IF tables = <<>> THEN <<>>
    ELSE cells_text(Head(tables)) \o tables_text(Tail(tables))

get_text(page) == page.text \o tables_text(page.tables)

\* the dict finances of _analyze_finances_intelligently(soup)
analyze_finances(page) ==
    dict_set(dict_set(money_amounts(get_text(page), Len(money_patterns)),
                      k_financial_items,
                      ListVal(financial_data(page.tables, Len(page.tables)))),
             k_ai_analysis, [t |-> "dict", s |-> FinancialHealthText, i |-> 0])

----------------------------------------------------------------------------
(* The finance page the site serves, and the analysis of it                *)

\* texts of the finance page outside its tables: empty; 'saldo'; '5 000 лв';
\* '1234 лв'; '2 million 12,500 eur'
FinanceTexts ==
    { <<>>,
      <<"s", "a", "l", "d", "o">>,
      <<"5", " ", "0", "0", "0", " ", "c_l", "c_v">>,
      <<"1", "2", "3", "4", " ", "c_l", "c_v">>,
      <<"2", " ", "m", "i", "l", "l", "i", "o", "n", " ",
        "1", "2", ",", "5", "0", "0", " ", "e", "u", "r">> }

\* rows of the finance page: 'income' '700'; 'баланс' '-'; 'note' 'x';
\* 'income' '1' '2'
FinanceRows ==
    { << <<"i", "n", "c", "o", "m", "e">>, <<"7", "0", "0">> >>,
      << <<"c_b", "c_a", "c_l", "c_a", "c_n", "c_s">>, <<"-">> >>,
      << <<"n", "o", "t", "e">>, <<"x">> >>,
      << <<"i", "n", "c", "o", "m", "e">>, <<"1">>, <<"2">> >> }

MaxFinanceRows == 2

\* the rows the page's tables hold
page_rows(page) == IF page.tables = <<>> THEN <<>> ELSE page.tables[1]

InitFinances ==
    /\ player_data = <<>>
    /\ args = <<>>
    /\ call = NoCall
    /\ soup \in {[text |-> text, tables |-> <<>>] : text \in FinanceTexts}
    /\ market_data = <<>>
    /\ transfer_targets = <<>>
    /\ opponent_cache = <<>>
    /\ RosterIdle

\* the site lists one more row on the finance page
ServeFinanceRow ==
    /\ call = NoCall
    /\ Len(page_rows(soup)) < MaxFinanceRows
    /\ \E cells \in FinanceRows :
          soup' = [soup EXCEPT !.tables = <<Append(page_rows(soup), cells)>>]
    /\ UNCHANGED <<player_data, args, call, market_vars, opponent_cache, roster_vars>>

\* _analyze_finances_intelligently(soup)
AnalyzeFinancesIntelligently ==
    /\ call = NoCall
    /\ finances' = analyze_finances(soup)
    /\ call' = [op |-> "analyze_finances_intelligently",
                ret |-> Len(analyze_finances(soup)) > 0]
    /\ UNCHANGED <<player_data, args, soup, market_vars, opponent_cache, team_vars,
                   players_vars, youth_players, youth_school, run, gui>>

NextFinances == ServeFinanceRow \/ AnalyzeFinancesIntelligently

SpecFinances == InitFinances /\ [][NextFinances]_vars

----------------------------------------------------------------------------
(* IntelligentHockeyAnalyzer._analyze_youth_intelligently                  *)

k_talent == <<"t", "a", "l", "e", "n", "t">>
k_potential == <<"p", "o", "t", "e", "n", "t", "i", "a", "l">>
k_quality == <<"q", "u", "a", "l", "i", "t", "y">>
k_talant == <<"c_t", "c_a", "c_l", "c_a", "c_n", "c_t">>
k_potencial == <<"c_p", "c_o", "c_t", "c_e", "c_n", "c_c", "c_i", "c_a", "c_l">>
k_kachestvo == <<"c_k", "c_a", "c_ch", "c_e", "c_s", "c_t", "c_v", "c_o">>
k_potential_rating ==
    <<"p", "o", "t", "e", "n", "t", "i", "a", "l", "_", "r", "a", "t", "i", "n", "g">>
k_development_time ==
    <<"d", "e", "v", "e", "l", "o", "p", "m", "e", "n", "t", "_", "t", "i", "m", "e">>
k_players == <<"p", "l", "a", "y", "e", "r", "s">>
k_count == <<"c", "o", "u", "n", "t">>

youth_indicators ==
    <<k_talant, k_talent, k_potencial, k_potential, k_kachestvo, k_quality>>

\* one turn of the loop of _calculate_youth_potential: scores is the pair
\* of quality and potential so far
youth_score_step(scores, item) ==
    IF Contains(lower(item.key), k_kachestvo) \/ Contains(lower(item.key), k_quality)
    THEN IF findall_digits(py_str(item.val)) # <<>>
         THEN <<IntOfDigits(findall_digits(py_str(item.val))[1]), scores[2]>>
         ELSE scores
    ELSE IF Contains(lower(item.key), k_potencial) \/ Contains(lower(item.key), k_potential)
    THEN IF findall_digits(py_str(item.val)) # <<>>
         THEN <<scores[1], IntOfDigits(findall_digits(py_str(item.val))[1])>>
         ELSE scores
    ELSE scores

\* quality and potential after the first n items, both 50 by default
RECURSIVE youth_scores(_, _)
youth_scores(youth_data, n) ==
    IF n = 0 THEN <<50, 50>>
    ELSE youth_score_step(youth_scores(youth_data, n - 1), youth_data[n])

\* _calculate_youth_potential(youth_data) in tenths:
\* round(quality * 0.4 + potential * 0.6, 1)
calculate_youth_potential(youth_data) ==
    4 * youth_scores(youth_data, Len(youth_data))[1]
    + 6 * youth_scores(youth_data, Len(youth_data))[2]

\* _estimate_development_time(youth_data)
estimate_development_time(youth_data) ==
    IF /\ extract_age(youth_data) # <<>>
       /\ extract_age(youth_data)[1] # 0
       /\ extract_age(youth_data)[1] < 18
    THEN <<"2", "-", "3", " ", "y", "e", "a", "r", "s">>
    ELSE IF /\ extract_age(youth_data) # <<>>
            /\ extract_age(youth_data)[1] # 0
            /\ extract_age(youth_data)[1] < 20
    THEN <<"1", "-", "2", " ", "y", "e", "a", "r", "s">>
    ELSE <<"6", " ", "m", "o", "n", "t", "h", "s", " ", "-", " ",
           "1", " ", "y", "e", "a", "r">>

\* the two keys the analysis adds to an accepted row
analyzed_youth(youth_data) ==
    dict_set(dict_set(youth_data, k_potential_rating,
                      FloatVal(calculate_youth_potential(youth_data))),
             k_development_time,
             StrVal(estimate_development_time(
                        dict_set(youth_data, k_potential_rating,
                                 FloatVal(calculate_youth_potential(youth_data))))))

\* what one row appends to youth_players: nothing, or one record
youth_row_records(headers, cells) ==
    IF Len(cells) < 3 THEN <<>>
    ELSE IF Len(map_player_cells(<<>>, headers, cells, Len(cells))) >= 3
    THEN <<analyzed_youth(map_player_cells(<<>>, headers, cells, Len(cells)))>>
    ELSE <<>>

\* the loop over rows[1:] of a youth table, up to row n of the table
RECURSIVE youth_table_records(_, _)
youth_table_records(table, n) ==
    IF n <= 1 THEN <<>>
    ELSE youth_table_records(table, n - 1)
         \o youth_row_records(table_headers(table), table[n])

\* the test that a table lists youth players
is_youth_table(table) ==
    /\ Len(table) >= 2
    /\ ContainsAny(join_blank(table_headers(table)), youth_indicators)

\* the list youth_players after the first n tables
RECURSIVE analyzed_youth_players(_, _)
analyzed_youth_players(tables, n) ==
    IF n = 0 THEN <<>>
    ELSE analyzed_youth_players(tables, n - 1)
         \o (IF is_youth_table(tables[n])
             THEN youth_table_records(tables[n], Len(tables[n]))
             ELSE <<>>)

----------------------------------------------------------------------------
(* The youth page the site serves, and the scrape of it                    *)

\* header rows of the youth page: 'name' 'age' 'talent' 'quality';
\* 'name' 'age' 'att' 'def'; 'name' 'age' 'потенциал' 'качество'
YouthHeaders ==
    { <<k_name, k_age, k_talent, k_quality>>,
      <<k_name, k_age, k_att, k_def>>,
      <<k_name, k_age, k_potencial, k_kachestvo>> }

\* data rows of the youth page: 'Petrov' '17' '80' '60'; 'Petrov' '19' '-'
\* '60'; 'Petrov' '-' '-' '60'; 'Petrov' '17'; 'Petrov' '0' '80' 'q70'
YouthRows ==
    { << <<"P", "e", "t", "r", "o", "v">>, <<"1", "7">>, <<"8", "0">>, <<"6", "0">> >>,
      << <<"P", "e", "t", "r", "o", "v">>, <<"1", "9">>, <<"-">>, <<"6", "0">> >>,
      << <<"P", "e", "t", "r", "o", "v">>, <<"-">>, <<"-">>, <<"6", "0">> >>,
      << <<"P", "e", "t", "r", "o", "v">>, <<"1", "7">> >>,
      << <<"P", "e", "t", "r", "o", "v">>, <<"0">>, <<"8", "0">>, <<"q", "7", "0">> >> }

MaxYouthRows == 2

InitYouth ==
    /\ player_data = <<>>
    /\ args = <<>>
    /\ call = NoCall
    /\ soup \in {<< <<headers>> >> : headers \in YouthHeaders}
    /\ market_data = <<>>
    /\ transfer_targets = <<>>
    /\ opponent_cache = <<>>
    /\ RosterIdle

\* the site lists one more prospect on the youth page
ServeYouthRow ==
    /\ call = NoCall
    /\ Len(soup[1]) <= MaxYouthRows
    /\ \E cells \in YouthRows : soup' = <<Append(soup[1], cells)>>
    /\ UNCHANGED <<player_data, args, call, market_vars, opponent_cache, roster_vars>>

\* scrape_page_intelligently('youth_school', ...) when the page arrives:
\* _analyze_youth_intelligently(soup) stores the list, then reads
\* self.data['youth_school'], which raises KeyError when the key is absent,
\* and the except clause of the scrape returns False
ScrapeYouthSchool ==
    /\ call = NoCall
    /\ youth_players' = analyzed_youth_players(soup, Len(soup))
    /\ IF youth_school = Absent
       THEN /\ UNCHANGED youth_school
            /\ call' = [op |-> "scrape_youth_school", raised |-> "KeyError",
                        ret |-> FALSE]
       ELSE /\ youth_school' =
                  [youth_school EXCEPT !.s =
                      dict_set(dict_set(youth_school.s, k_players,
                                        ListVal(analyzed_youth_players(soup, Len(soup)))),
                               k_count,
                               IntVal(Len(analyzed_youth_players(soup, Len(soup)))))]
            /\ call' = [op |-> "scrape_youth_school", raised |-> "",
                        ret |-> Len(analyzed_youth_players(soup, Len(soup))) > 0]
    /\ UNCHANGED <<player_data, args, soup, market_vars, opponent_cache, team_vars,
                   players_vars, finances, run, gui>>

NextYouth == ServeYouthRow \/ ScrapeYouthSchool

SpecYouth == InitYouth /\ [][NextYouth]_vars

----------------------------------------------------------------------------
(* The opponent cache over a season: the standings change between calls,   *)
(* and a call can end in the except clause of analyze_opponent             *)

InitOpponentCache ==
    /\ player_data = <<>>
    /\ args = <<>>
    /\ call = NoCall
    /\ soup = << <<>> >>
    /\ market_data = <<>>
    /\ transfer_targets = <<>>
    /\ opponent_cache = <<>>
    /\ RosterIdle

\* the site adds a row to the standings table, whether or not an opponent
\* has been analysed
ReviseStandings ==
    /\ Len(soup[1]) < MaxStandingsRows
    /\ \E row \in StandingsRows : soup' = <<Append(soup[1], row)>>
    /\ UNCHANGED <<player_data, args, call, market_vars, opponent_cache, roster_vars>>

\* analyze_opponent(opponent_name) when an exception leaves the try block
\* before the analysis is stored: the except clause returns the dict with
\* 'name' and 'error'
AnalyzeOpponentFails(opponent_name) ==
    /\ opponent_name \notin DOMAIN opponent_cache
    /\ call' = [op |-> "analyze_opponent", name |-> opponent_name,
                data |-> [t |-> "raised", d |-> <<>>],
                ret |-> [name |-> opponent_name, error |-> "Exception"]]
    /\ UNCHANGED <<player_data, args, soup, market_vars, opponent_cache, roster_vars>>

NextOpponentCache ==
    \/ ReviseStandings
    \/ \E opponent_name \in OpponentNames : AnalyzeOpponent(opponent_name)
    \/ \E opponent_name \in OpponentNames : AnalyzeOpponentFails(opponent_name)

SpecOpponentCache == InitOpponentCache /\ [][NextOpponentCache]_vars

----------------------------------------------------------------------------
(* TacticalOptimizer._select_optimal_lineup.  A PlayerStats object is the  *)
(* record of its attributes, and a lineup names players by their place in  *)
(* the list the method was given                                           *)

\* the places where player n can stand in an order of the players before
\* it: after every player rated higher, before every player rated lower,
\* and after the players with its own attributes.  Two sums that are equal
\* as numbers may differ as floats, so the order of such players is open
places(squad, pos, order, n) ==
    {k \in 1..(Len(order) + 1) :
        /\ \A j \in 1..(k - 1) :
              calculate_position_rating(squad[order[j]], pos)
                  >= calculate_position_rating(squad[n], pos)
        /\ \A j \in k..Len(order) :
              /\ calculate_position_rating(squad[order[j]], pos)
                    <= calculate_position_rating(squad[n], pos)
              /\ squad[order[j]] # squad[n]}

\* the orders pos_players.sort(key=rating, reverse=True) can leave the
\* first n players in
RECURSIVE sorted_orders(_, _, _)
sorted_orders(squad, pos, n) ==
    IF n = 0 THEN {<<>>}
    ELSE UNION {{SubSeq(order, 1, k - 1) \o <<n>> \o SubSeq(order, k, Len(order)) :
                    k \in places(squad, pos, order, n)} :
                order \in sorted_orders(squad, pos, n - 1)}

\* pos_players[:n]
first_n(order, n) == SubSeq(order, 1, Min(n, Len(order)))

\* the lineups _select_optimal_lineup(players) can return; goalkeeper is
\* <<>> for None
select_optimal_lineup(squad) ==
    {[goalkeeper |-> first_n(goalkeepers, 1),
      defenders |-> first_n(defenders, 4),
      centers |-> first_n(centers, 2),
      forwards |-> first_n(forwards, 4)] :
        goalkeepers \in sorted_orders(squad, "goalkeeper", Len(squad)),
        defenders \in sorted_orders(squad, "defender", Len(squad)),
        centers \in sorted_orders(squad, "center", Len(squad)),
        forwards \in sorted_orders(squad, "forward", Len(squad))}

----------------------------------------------------------------------------
(* A squad that grows player by player, and the selection of its lineup    *)

\* the players a squad is made of: a goalkeeper, a defender, and two
\* forwards whose forward ratings are the same number
SquadPlayers ==
    { [goa |-> 80, def_ |-> 20, att |-> 10, sho |-> 10, pas |-> 30, str_ |-> 40,
       spe |-> 50, dis |-> 50],
      [goa |-> 10, def_ |-> 70, att |-> 30, sho |-> 20, pas |-> 40, str_ |-> 60,
       spe |-> 40, dis |-> 50],
      [goa |-> 10, def_ |-> 30, att |-> 70, sho |-> 60, pas |-> 50, str_ |-> 40,
       spe |-> 60, dis |-> 50],
      [goa |-> 10, def_ |-> 30, att |-> 60, sho |-> 70, pas |-> 50, str_ |-> 40,
       spe |-> 60, dis |-> 50] }

MaxSquad == 5

InitLineup ==
    /\ player_data = <<>>
    /\ args = [players |-> <<>>]
    /\ call = NoCall
    /\ soup = <<>>
    /\ market_data = <<>>
    /\ transfer_targets = <<>>
    /\ opponent_cache = <<>>
    /\ RosterIdle

\* one more player joins the squad
AddSquadPlayer ==
    /\ call = NoCall
    /\ Len(args.players) < MaxSquad
    /\ \E player \in SquadPlayers : args' = [players |-> Append(args.players, player)]
    /\ UNCHANGED <<player_data, call, soup, market_vars, opponent_cache, roster_vars>>

\* optimal_lineup = self._select_optimal_lineup(our_players)
SelectOptimalLineup ==
    /\ call = NoCall
    /\ \E lineup \in select_optimal_lineup(args.players) :
          call' = [op |-> "select_optimal_lineup", ret |-> lineup]
    /\ UNCHANGED <<player_data, args, soup, market_vars, opponent_cache, roster_vars>>

NextLineup == AddSquadPlayer \/ SelectOptimalLineup

SpecLineup == InitLineup /\ [][NextLineup]_vars

----------------------------------------------------------------------------
(* IntelligentHockeyAnalyzer.run_intelligent_analysis, step by step.  The  *)
(* run is followed by what it asks of the site, which pages it hands to an *)
(* analysis, whether the AI analysis was made and which files it writes;   *)
(* what the analyses extract is the subject of the sections above          *)

\* self.analysis_pages, in the order the run walks them: the critical, the
\* important and the optional pages
analysis_pages ==
    <<"players", "finances", "tactics", "market", "youth_school",
      "training", "matches", "standings", "statistics",
      "calendar", "stadium", "scouting", "lineup">>

\* the requests of login(): the homepage, the login page, the login form
login_requests == <<"homepage", "login_page", "login_post">>

\* how many of its requests login() makes before it returns False: the
\* homepage fails; the login page fails or has no form; the answer to the
\* form is not the manager's page.  An exception in a request ends it at
\* the same places
FailedLoginRequests == {1, 2, 3}

\* the files save_intelligent_results writes
result_files == {"intelligent.json", "ai_report.txt"}

InitRun ==
    /\ player_data = <<>>
    /\ args = <<>>
    /\ call = NoCall
    /\ soup = <<>>
    /\ market_data = <<>>
    /\ transfer_targets = <<>>
    /\ opponent_cache = <<>>
    /\ RosterIdle

\* `if not self.login(): return False` with login() returning False after n
\* of its requests, and the run going on all the same
RunLoginFailsGoesOn(n) ==
    /\ run.pc = "start"
    /\ requested' = requested \o SubSeq(login_requests, 1, n)
    /\ run' = [run EXCEPT !.pc = "pages", !.page = 1, !.login = "failed"]
    /\ UNCHANGED <<player_data, args, call, soup, market_vars, opponent_cache,
                   our_players, team_info, players_vars, finances, youth_players,
                   youth_school, gui>>

\* `if not self.login(): return False` with login() returning False after n
\* of its requests
RunLoginFails(n) ==
    /\ run.pc = "start"
    /\ requested' = requested \o SubSeq(login_requests, 1, n)
    /\ run' = [run EXCEPT !.pc = "done", !.login = "failed", !.ret = FALSE]
    /\ UNCHANGED <<player_data, args, call, soup, market_vars, opponent_cache,
                   our_players, team_info, players_vars, finances, youth_players,
                   youth_school, gui>>

\* login() returns True
RunLoginSucceeds ==
    /\ run.pc = "start"
    /\ requested' = requested \o login_requests
    /\ run' = [run EXCEPT !.pc = "pages", !.page = 1, !.login = "ok"]
    /\ UNCHANGED <<player_data, args, call, soup, market_vars, opponent_cache,
                   our_players, team_info, players_vars, finances, youth_players,
                   youth_school, gui>>

\* the step of the loop to the next page, or to the AI analysis after the
\* last page
after_page(r) ==
    IF r.page = Len(analysis_pages)
    THEN [r EXCEPT !.pc = "analysis"]
    ELSE [r EXCEPT !.page = r.page + 1]

\* scrape_page_intelligently(page_name, page_url) when the page does not
\* arrive: the status is not 200, or session.get raises
RunPageFails ==
    /\ run.pc = "pages"
    /\ requested' = Append(requested, analysis_pages[run.page])
    /\ run' = after_page(run)
    /\ UNCHANGED <<player_data, args, call, soup, market_vars, opponent_cache,
                   our_players, team_info, players_vars, finances, youth_players,
                   youth_school, gui>>

\* scrape_page_intelligently(page_name, page_url) when the page arrives: it
\* is saved as <page_name>_page.html and handed to its analysis
RunPageArrives ==
    /\ run.pc = "pages"
    /\ requested' = Append(requested, analysis_pages[run.page])
    /\ run' = after_page([run EXCEPT
                              !.analysed = @ \cup {analysis_pages[run.page]},
                              !.files = @ \cup {analysis_pages[run.page]}])
    /\ UNCHANGED <<player_data, args, call, soup, market_vars, opponent_cache,
                   our_players, team_info, players_vars, finances, youth_players,
                   youth_school, gui>>

\* self.perform_comprehensive_ai_analysis()
RunAiAnalysis ==
    /\ run.pc = "analysis"
    /\ run' = [run EXCEPT !.pc = "save", !.ai_analysis = TRUE]
    /\ UNCHANGED <<player_data, args, call, soup, market_vars, opponent_cache,
                   team_vars, players_vars, finances, youth_players, youth_school, gui>>

\* self.save_intelligent_results() and `return True`
RunSaveResults ==
    /\ run.pc = "save"
    /\ run' = [run EXCEPT !.pc = "done", !.files = @ \cup result_files, !.ret = TRUE]
    /\ UNCHANGED <<player_data, args, call, soup, market_vars, opponent_cache,
                   team_vars, players_vars, finances, youth_players, youth_school, gui>>

NextRun ==
    \/ \E n \in FailedLoginRequests : RunLoginFails(n)
    \/ RunLoginSucceeds
    \/ RunPageFails
    \/ RunPageArrives
    \/ RunAiAnalysis
    \/ RunSaveResults

SpecRun == InitRun /\ [][NextRun]_vars

----------------------------------------------------------------------------
(* HockeyArenaGUI: the comprehensive analysis.  The main thread serves the *)
(* start requests and the callbacks scheduled with root.after, in the      *)
(* order they were scheduled; each analysis runs in a thread of its own.   *)
(* A thread is the record of where it stands in run_comprehensive_analysis *)
(* and of the completed / failed callbacks it has scheduled                *)

\* the number of analysis threads started in a behaviour
MaxStarts == 2

\* the settings of the two check boxes, True after __init__ and whatever
\* load_settings read
Settings == [deep_analysis : BOOLEAN, auto_tactics : BOOLEAN]

\* what the entries for user name and password hold
Credentials == {"given", "missing"}

InitGuiRun ==
    /\ player_data = <<>>
    /\ args \in Settings
    /\ call = NoCall
    /\ soup = <<>>
    /\ market_data = <<>>
    /\ transfer_targets = <<>>
    /\ opponent_cache = <<>>
    /\ RosterIdle

\* self.opponents_data: the names of the opponents in the order they were
\* inserted, each with the thread function that stored its analysis
dict_keys(d) == [i \in 1..Len(d) |-> d[i].name]
has_key(d, name) == \E i \in 1..Len(d) : d[i].name = name
store(d, name, by) ==
    IF has_key(d, name)
    THEN [i \in 1..Len(d) |-> IF d[i].name = name THEN [name |-> name, by |-> by]
                                                   ELSE d[i]]
    ELSE Append(d, [name |-> name, by |-> by])

\* what discover_and_analyze_opponents() returns: {} when the standings
\* cannot be had, else the analyses of the teams listed there
DiscoveredOpponents ==
    { <<>>, <<[name |-> "Bears", by |-> "run_comprehensive_analysis"]>> }

\* a thread whose run_comprehensive_analysis has not returned
InFlight == {t \in 1..Len(gui.threads) : gui.threads[t].pc # "done"}

\* self.root.after(0, callback) by thread t
schedule(g, t, callbacks) ==
    [g EXCEPT !.after = @ \o [i \in 1..Len(callbacks) |-> [fn |-> callbacks[i], thread |-> t]]]

\* thread t goes on to the step pc
goes_to(g, t, pc) == [g EXCEPT !.threads[t].pc = pc]

\* thread t schedules its last callback and ends
ends_with(g, t, callback) ==
    [schedule(g, t, <<callback>>) EXCEPT
        !.threads[t] = [pc |-> "done", callbacks |-> Append(@.callbacks, callback)]]

\* start_comprehensive_analysis() without the test of self.running
StartComprehensiveAnalysisUnguarded(credentials) ==
    /\ gui.main.pc = "idle"
    /\ IF credentials = "missing"
       THEN /\ call' = [op |-> "start_comprehensive_analysis", ret |-> "no_credentials"]
            /\ UNCHANGED gui
       ELSE /\ Len(gui.threads) < MaxStarts
            /\ call' = [op |-> "start_comprehensive_analysis", ret |-> "started"]
            /\ gui' = [gui EXCEPT !.running = TRUE,
                                  !.login_button = "disabled",
                                  !.threads = Append(@, [pc |-> "login",
                                                         callbacks |-> <<>>])]
    /\ UNCHANGED <<player_data, args, soup, market_vars, opponent_cache, team_vars,
                   players_vars, pages_vars>>

\* start_comprehensive_analysis(), on the main thread: a warning when an
\* analysis is running, an error box when a credential is missing, else the
\* flag is set, the button disabled and the thread started
StartComprehensiveAnalysis(credentials) ==
    /\ gui.main.pc = "idle"
    /\ IF gui.running
       THEN /\ call' = [op |-> "start_comprehensive_analysis", ret |-> "already_running"]
            /\ UNCHANGED gui
       ELSE IF credentials = "missing"
       THEN /\ call' = [op |-> "start_comprehensive_analysis", ret |-> "no_credentials"]
            /\ UNCHANGED gui
       ELSE /\ Len(gui.threads) < MaxStarts
            /\ call' = [op |-> "start_comprehensive_analysis", ret |-> "started"]
            /\ gui' = [gui EXCEPT !.running = TRUE,
                                  !.login_button = "disabled",
                                  !.threads = Append(@, [pc |-> "login",
                                                         callbacks |-> <<>>])]
    /\ UNCHANGED <<player_data, args, soup, market_vars, opponent_cache, team_vars,
                   players_vars, pages_vars>>

\* run_comprehensive_analysis in thread t: the analyzer is created and
\* login_with_human_behavior() returns True
WorkerLoginSucceeds(t) ==
    /\ gui.threads[t].pc = "login"
    /\ gui' = goes_to(schedule([gui EXCEPT !.analyzer = TRUE], t, <<"status", "status">>),
                      t, "team")
    /\ UNCHANGED <<player_data, args, call, soup, market_vars, opponent_cache, team_vars,
                   players_vars, pages_vars>>

\* login_with_human_behavior() returns False: the exception raised for it
\* is caught and analysis_failed is scheduled
WorkerLoginFails(t) ==
    /\ gui.threads[t].pc = "login"
    /\ gui' = ends_with(schedule([gui EXCEPT !.analyzer = TRUE], t, <<"status">>),
                        t, "analysis_failed")
    /\ UNCHANGED <<player_data, args, call, soup, market_vars, opponent_cache, team_vars,
                   players_vars, pages_vars>>

\* self.analyzer.analyze_our_team(); self.our_players = ...
WorkerAnalyzesTeam(t) ==
    /\ gui.threads[t].pc = "team"
    /\ gui' = goes_to(schedule([gui EXCEPT !.our_players = TRUE], t, <<"status">>),
                      t, "opponents")
    /\ UNCHANGED <<player_data, args, call, soup, market_vars, opponent_cache, team_vars,
                   players_vars, pages_vars>>

\* if self.deep_analysis_var.get(): self.opponents_data = opponents, the
\* dict discover_and_analyze_opponents() returns, assigned in the thread
WorkerAnalyzesOpponents(t) ==
    /\ gui.threads[t].pc = "opponents"
    /\ \E opponents \in DiscoveredOpponents :
          gui' = goes_to(schedule([gui EXCEPT !.opponents_data =
                                       IF args.deep_analysis THEN opponents ELSE @],
                                  t, <<"status">>),
                         t, "tactics")
    /\ UNCHANGED <<player_data, args, call, soup, market_vars, opponent_cache, team_vars,
                   players_vars, pages_vars>>

\* if self.auto_tactics_var.get(): generate_optimal_tactics(); then
\* analysis_completed_successfully is scheduled
WorkerFinishes(t) ==
    /\ gui.threads[t].pc = "tactics"
    /\ gui' = ends_with([gui EXCEPT !.tactics = @ \/ args.auto_tactics], t,
                        "analysis_completed_successfully")
    /\ UNCHANGED <<player_data, args, call, soup, market_vars, opponent_cache, team_vars,
                   players_vars, pages_vars>>

\* an exception in a step after the login that dies with its thread
WorkerRaisesUncaught(t) ==
    /\ gui.threads[t].pc \in {"team", "opponents", "tactics"}
    /\ gui' = goes_to(gui, t, "done")
    /\ UNCHANGED <<player_data, args, call, soup, market_vars, opponent_cache, team_vars,
                   players_vars, pages_vars>>

\* an exception in a step after the login: the except clause schedules
\* analysis_failed
WorkerRaises(t) ==
    /\ gui.threads[t].pc \in {"team", "opponents", "tactics"}
    /\ gui' = ends_with(gui, t, "analysis_failed")
    /\ UNCHANGED <<player_data, args, call, soup, market_vars, opponent_cache, team_vars,
                   players_vars, pages_vars>>

\* update_opponents_list() up to its loop: nothing more when
\* opponents_data is empty, else opponent_names = list(....keys())
begin_listing(g) ==
    IF g.opponents_data = <<>>
    THEN g
    ELSE [g EXCEPT !.main = [pc |-> "listing", names |-> dict_keys(g.opponents_data),
                             i |-> 1]]

\* the callbacks that clear the flag and enable the button
ending_callbacks == {"analysis_completed_successfully", "analysis_failed"}

\* the main loop runs the callback scheduled first: a status line or a
\* message box; analysis_completed_successfully / analysis_failed, which
\* clear the flag and enable the button; update_opponents_list, also called
\* by analysis_completed_successfully; display_opponent_details, which
\* reads the entry of its opponent
RunCallback ==
    /\ gui.main.pc = "idle"
    /\ gui.after # <<>>
    /\ gui' = LET fn == Head(gui.after).fn
                  g == [gui EXCEPT !.after = Tail(@),
                                   !.running = IF fn \in ending_callbacks
                                               THEN FALSE ELSE @,
                                   !.login_button = IF fn \in ending_callbacks
                                                    THEN "normal" ELSE @]
              IN IF fn \in {"analysis_completed_successfully", "update_opponents_list"}
                 THEN begin_listing(g)
                 ELSE g
    /\ UNCHANGED <<player_data, args, call, soup, market_vars, opponent_cache, team_vars,
                   players_vars, pages_vars>>

\* one turn of the loop of update_opponents_list, on the main thread:
\* self.opponents_data[name] is read, and a name that is no key of the
\* dict the attribute holds by now ends the callback with a KeyError
UpdateOpponentsListStep ==
    /\ gui.main.pc = "listing"
    /\ gui' = LET name == gui.main.names[gui.main.i]
              IN IF ~has_key(gui.opponents_data, name)
                 THEN [gui EXCEPT !.main = NoListing, !.raised = "KeyError"]
                 ELSE IF gui.main.i = Len(gui.main.names)
                 THEN [gui EXCEPT !.main = NoListing]
                 ELSE [gui EXCEPT !.main.i = @ + 1]
    /\ UNCHANGED <<player_data, args, call, soup, market_vars, opponent_cache, team_vars,
                   players_vars, pages_vars>>

\* the main thread goes on
MainLoop == RunCallback \/ UpdateOpponentsListStep

\* the analysis threads started so far
Threads == 1..Len(gui.threads)

NextGuiRun ==
    \/ \E credentials \in Credentials : StartComprehensiveAnalysis(credentials)
    \/ \E t \in Threads : WorkerLoginSucceeds(t)
    \/ \E t \in Threads : WorkerLoginFails(t)
    \/ \E t \in Threads : WorkerAnalyzesTeam(t)
    \/ \E t \in Threads : WorkerAnalyzesOpponents(t)
    \/ \E t \in Threads : WorkerFinishes(t)
    \/ \E t \in Threads : WorkerRaises(t)
    \/ RunCallback
    \/ UpdateOpponentsListStep

SpecGuiRun == InitGuiRun /\ [][NextGuiRun]_vars

\* a step of analysis thread t, once it is started
WorkerStep(t) ==
    /\ t \in Threads
    /\ \/ WorkerLoginSucceeds(t)
       \/ WorkerLoginFails(t)
       \/ WorkerAnalyzesTeam(t)
       \/ WorkerAnalyzesOpponents(t)
       \/ WorkerFinishes(t)
       \/ WorkerRaises(t)

\* the main loop keeps running callbacks, and every thread that can take a
\* step takes one: a request of the site returns or raises
FairGuiRun ==
    /\ SpecGuiRun
    /\ WF_vars(MainLoop)
    /\ \A t \in 1..MaxStarts : WF_vars(WorkerStep(t))

----------------------------------------------------------------------------
(* HockeyArenaGUI: the opponent buttons.  analyze_specific_opponent and    *)
(* analyze_all_league_opponents run on the main thread and start a thread  *)
(* each, whatever `running` holds; the thread functions analyze and        *)
(* analyze_all store into self.opponents_data in their own thread and      *)
(* schedule update_opponents_list with root.after.  A worker is the record *)
(* of its function, the names it goes through and its place among them     *)

\* the number of opponent threads started in a behaviour
MaxWorkers == 1

\* what the entry for the opponent's name holds, stripped
OpponentEntries == {"", "Lions"}

\* what discover_all_league_opponents() returns: [] when the standings
\* cannot be had, else the names listed there
LeagueOpponents == { <<>>, <<"Lions", "Bears", "Wolves">> }

\* the opponent threads started so far
Workers == 1..Len(gui.workers)

\* self.root.after(0, callback) by an opponent thread, which is none of
\* the analysis threads
schedule_by_worker(g, callbacks) == schedule(g, 0, callbacks)

\* analyze_specific_opponent(), on the main thread: an error box for an
\* empty name and for no analyzer, else the thread analyze is started
AnalyzeSpecificOpponent(opponent_name) ==
    /\ gui.main.pc = "idle"
    /\ IF opponent_name = ""
       THEN /\ call' = [op |-> "analyze_specific_opponent", ret |-> "no_name"]
            /\ UNCHANGED gui
       ELSE IF ~gui.analyzer
       THEN /\ call' = [op |-> "analyze_specific_opponent", ret |-> "no_analyzer"]
            /\ UNCHANGED gui
       ELSE /\ Len(gui.workers) < MaxWorkers
            /\ call' = [op |-> "analyze_specific_opponent", ret |-> "started"]
            /\ gui' = [gui EXCEPT !.workers =
                          Append(@, [fn |-> "analyze", pc |-> "analyze",
                                     names |-> <<opponent_name>>, i |-> 1])]
    /\ UNCHANGED <<player_data, args, soup, market_vars, opponent_cache, team_vars,
                   players_vars, pages_vars>>

\* analyze_all_league_opponents(), on the main thread: an error box for no
\* analyzer, else the thread analyze_all is started
AnalyzeAllLeagueOpponents ==
    /\ gui.main.pc = "idle"
    /\ IF ~gui.analyzer
       THEN /\ call' = [op |-> "analyze_all_league_opponents", ret |-> "no_analyzer"]
            /\ UNCHANGED gui
       ELSE /\ Len(gui.workers) < MaxWorkers
            /\ call' = [op |-> "analyze_all_league_opponents", ret |-> "started"]
            /\ gui' = [gui EXCEPT !.workers =
                          Append(@, [fn |-> "analyze_all", pc |-> "discover",
                                     names |-> <<>>, i |-> 0])]
    /\ UNCHANGED <<player_data, args, soup, market_vars, opponent_cache, team_vars,
                   players_vars, pages_vars>>

\* analyze() in thread w: the analysis, a dict that is never empty, is
\* stored under the name and three callbacks are scheduled
AnalyzeStores(w) ==
    /\ gui.workers[w].pc = "analyze"
    /\ gui' = [schedule_by_worker(
                   [gui EXCEPT !.opponents_data = store(@, gui.workers[w].names[1], "analyze")],
                   <<"status", "update_opponents_list", "display_opponent_details",
                     "showinfo">>)
               EXCEPT !.workers[w].pc = "done"]
    /\ UNCHANGED <<player_data, args, call, soup, market_vars, opponent_cache, team_vars,
                   players_vars, pages_vars>>

\* analyze_all() in thread w: all_opponents = discover_all_league_opponents()
AnalyzeAllDiscovers(w) ==
    /\ gui.workers[w].pc = "discover"
    /\ \E all_opponents \in LeagueOpponents :
          gui' = [schedule_by_worker(gui, <<"status">>)
                  EXCEPT !.workers[w] = [fn |-> "analyze_all", pc |-> "loop",
                                         names |-> all_opponents, i |-> 1]]
    /\ UNCHANGED <<player_data, args, call, soup, market_vars, opponent_cache, team_vars,
                   players_vars, pages_vars>>

\* one turn of the loop of analyze_all() in thread w: the analysis of the
\* opponent is stored, and every third turn schedules update_opponents_list
AnalyzeAllStores(w) ==
    /\ gui.workers[w].pc = "loop"
    /\ gui.workers[w].i <= Len(gui.workers[w].names)
    /\ gui' = [schedule_by_worker(
                   [gui EXCEPT !.opponents_data =
                                   store(@, gui.workers[w].names[gui.workers[w].i],
                                         "analyze_all")],
                   IF gui.workers[w].i % 3 = 0
                   THEN <<"status", "update_opponents_list">>
                   ELSE <<"status">>)
               EXCEPT !.workers[w].i = @ + 1]
    /\ UNCHANGED <<player_data, args, call, soup, market_vars, opponent_cache, team_vars,
                   players_vars, pages_vars>>

\* analyze_all() in thread w after its loop: update_opponents_list and the
\* message box are scheduled
AnalyzeAllFinishes(w) ==
    /\ gui.workers[w].pc = "loop"
    /\ gui.workers[w].i > Len(gui.workers[w].names)
    /\ gui' = [schedule_by_worker(gui, <<"update_opponents_list", "showinfo">>)
               EXCEPT !.workers[w].pc = "done"]
    /\ UNCHANGED <<player_data, args, call, soup, market_vars, opponent_cache, team_vars,
                   players_vars, pages_vars>>

NextGuiOpponents ==
    \/ NextGuiRun
    \/ \E opponent_name \in OpponentEntries : AnalyzeSpecificOpponent(opponent_name)
    \/ AnalyzeAllLeagueOpponents
    \/ \E w \in Workers : AnalyzeStores(w)
    \/ \E w \in Workers : AnalyzeAllDiscovers(w)
    \/ \E w \in Workers : AnalyzeAllStores(w)
    \/ \E w \in Workers : AnalyzeAllFinishes(w)

SpecGuiOpponents == InitGuiRun /\ [][NextGuiOpponents]_vars

----------------------------------------------------------------------------
(* Claims about the rating engine (checked under SpecRate)                 *)

\* the record holds a key that is one of the known attribute names
KnownAttributePresent(pd) ==
    \E i \in 1..Len(pd) : InList(lower(pd[i].key), RatingKeys)

\* the value the record gives for attr: the first digit run of its cell
PresentValue(pd, attr) == IntOfDigits(findall_digits(py_str(Lookup(pd, attr)))[1])

\* the attributes of the record that carry a positive weight in weights
Counted(pd, weights) ==
    {i \in 1..Len(weights) : weights[i].val > 0 /\ HasKey(pd, weights[i].key)}

RECURSIVE SumOver(_, _)
SumOver(S, f) ==
    IF S = {} THEN 0
    ELSE LET x == CHOOSE y \in S : TRUE IN f[x] + SumOver(S \ {x}, f)

\* sum of value * weight, and sum of weight, over the counted attributes
ValueSum(pd, weights) ==
    SumOver(Counted(pd, weights),
            [i \in 1..Len(weights) |->
                IF HasKey(pd, weights[i].key)
                THEN PresentValue(pd, weights[i].key) * weights[i].val ELSE 0])

WeightSum(pd, weights) ==
    SumOver(Counted(pd, weights), [i \in 1..Len(weights) |-> weights[i].val])

IsRatingCall == call.op = "calculate_player_rating"

\* the weight vector calculate_player_rating ends up using for the call
UsedWeights ==
    dict_get(position_weights, rating_position(player_data, call.position),
             Lookup(position_weights, "forward"))

\* C1 as stated: every rating lies in [0,100] and is 0.0 exactly when no
\* known attribute is present in the record.
C1_ZeroExactlyWhenAbsent ==
    /\ IsRatingCall =>
          /\ call.ret \in 0..1000
          /\ (call.ret = 0) <=> ~KnownAttributePresent(player_data)
    /\ call.op = "gui_calculate_ai_rating" =>
          /\ call.ret \in 0..1000
          /\ (call.ret = 0) <=> ~KnownAttributePresent(player_data)
    /\ call.op = "calculate_position_rating" =>
          /\ call.ret \in 0..10000
          /\ (call.ret = 0) <=> ~KnownAttributePresent(player_data)

\* C1 as amended: every rating lies in [0,100] and is 0.0 whenever no known
\* attribute is present; the rating of calculate_player_rating is 0.0 also
\* when no attribute present has a positive weight for the position used, or
\* when the weighted average of those that have is below 0.05 (all of them
\* 0), and in no other case.
C1_RatingRange ==
    /\ IsRatingCall =>
          /\ call.ret \in 0..1000
          /\ ~KnownAttributePresent(player_data) => call.ret = 0
          /\ WeightSum(player_data, UsedWeights) = 0 => call.ret = 0
          /\ 20 * ValueSum(player_data, UsedWeights) < WeightSum(player_data, UsedWeights)
                => call.ret = 0
          /\ call.ret = 0 =>
                20 * ValueSum(player_data, UsedWeights) <= WeightSum(player_data, UsedWeights)
    /\ call.op = "gui_calculate_ai_rating" =>
          /\ call.ret \in 0..1000
          /\ ~KnownAttributePresent(player_data) => call.ret = 0
    /\ call.op = "calculate_position_rating" =>
          /\ call.ret \in 0..10000
          /\ ~KnownAttributePresent(player_data) => call.ret = 0

\* C1 witness: a record that holds a known attribute with a positive value
\* was rated 0.0, because that attribute has no weight for the position.
C1_Witness ==
    /\ IsRatingCall
    /\ call.ret = 0
    /\ \E i \in 1..Len(player_data) :
          /\ InList(player_data[i].key, RatingKeys)
          /\ PresentValue(player_data, player_data[i].key) > 0
    /\ WeightSum(player_data, UsedWeights) = 0

\* C2 as stated: the rating is the sum of value * weight over the attributes
\* present, with the weight vector of the requested position (forward
\* included), divided by the sum of the weights of the attributes present.
C2_WeightedAverageOfRequestedPosition ==
    (IsRatingCall /\ HasKey(position_weights, call.position)) =>
        LET weights == Lookup(position_weights, call.position)
        IN  WeightSum(player_data, weights) > 0 =>
               call.ret \in RoundSet(10 * ValueSum(player_data, weights),
                                     WeightSum(player_data, weights))

\* the positions in the priority order of the claim
PriorityOrder == <<"goalkeeper", "defenseman", "center", "forward">>

\* C3 as stated: the position returned has the largest of the four ratings,
\* and among several with the largest it is the first in the order
\* goalkeeper > defender > center > forward.
C3_ArgmaxWithPriority ==
    call.op = "scraper_determine_best_position" =>
        LET rating(p) == Lookup(call.ratings, p)
            top(p) == \A i \in 1..Len(PriorityOrder) : rating(PriorityOrder[i]) <= rating(p)
        IN  /\ top(call.ret)
            /\ \A i \in 1..Len(PriorityOrder) :
                  top(PriorityOrder[i]) =>
                     \E j \in 1..i : PriorityOrder[j] = call.ret

----------------------------------------------------------------------------
(* Claims about the market opportunity scorer                              *)

MarketAnalyzed == call.op = "analyze_market_intelligently"

\* the asking price of a listing as the scorer parses it
AskingPrice(listing) ==
    parse_price(py_str(dict_get(listing, k_min_cena, StrVal(<<"0">>))))

\* the listing at place n of market_data is in the scorer's output
InOutput(n) == \E i \in 1..Len(transfer_targets) : transfer_targets[i].row = n

\* the opportunity score of the claim is above five: rating (tenths) times
\* max(0.5, (35 - age) / 10) (tenths) over price / 1,000,000
ScoreAboveFive(rating, price, age) == rating * Max(5, 35 - age) * 2000 > price
ScoreBelowFive(rating, price, age) == rating * Max(5, 35 - age) * 2000 < price

\* hundredths is the exact quotient num / den rounded to the nearest integer
IsRounded(hundredths, num, den) ==
    /\ 2 * (hundredths * den - num) <= den
    /\ 2 * (num - hundredths * den) <= den

\* C4: after the scorer has run on any set of market listings, no listing
\* whose asking price is zero or less (missing, a placeholder, or without
\* leading digits) is in its output.
C4_UnpricedAbsent ==
    MarketAnalyzed =>
        \A n \in 1..Len(market_data) :
            AskingPrice(market_data[n]) <= 0 => ~InOutput(n)

\* C4 witness: the scorer ran on a page with a listing that has no price key
\* at all and a listing that it kept.
C4_Witness ==
    /\ MarketAnalyzed
    /\ \E n \in 1..Len(market_data) :
          /\ ~HasKey(market_data[n], k_min_cena)
          /\ AskingPrice(market_data[n]) <= 0
    /\ Len(transfer_targets) > 0

C7_FirstMatchWins ==
    call.op = "get_transfer_recommendation" =>
        /\ (args.age < 22 /\ args.rating > 500) => call.ret = "young_talent"
        /\ (args.age > 32 /\ args.price > 20000000) => call.ret = "overpriced_veteran"
        /\ call.ret = "value_for_money" =>
              (args.rating > 700 /\ args.price < 10000000)
        /\ call.ret = "good_addition" =>
              (args.rating > 600 /\ ~(args.rating > 700 /\ args.price < 10000000))
        /\ call.ret = "not_recommended" => args.rating <= 600

\* C7 witness: a veteran of 33 or more priced above 20,000,000 with a rating
\* above 70 was tagged "overpriced veteran".
C7_Witness ==
    /\ call.op = "get_transfer_recommendation"
    /\ args.age > 32
    /\ args.price > 20000000
    /\ args.rating > 700
    /\ call.ret = "overpriced_veteran"

----------------------------------------------------------------------------
(* Claims about the opponent analysis                                      *)

\* an opponent was analysed afresh, not answered from the cache
OpponentAnalyzed == call.op = "analyze_opponent" /\ call.data.t # "cached"

\* standings data of the opponent was there: the page came and a row of it
\* names the opponent
StandingsFound == call.data.t = "dict" /\ call.data.d # <<>>

\* a field of the standings row that was found
StandingsField(key) == py_str(Lookup(call.data.d, key))

\* the strength rating of the claim for a standings position, in tenths
ClaimedStrength(position) == Min(1000, Max(0, 500 + Max(0, (20 - position) * 25)))

\* C8: an opponent analysed from a standings row whose position cell holds
\* a number has strength rating 50 + max(0, (20 - position) * 2.5) clamped
\* to [0, 100]; position 3 gives 92.5.
C8_StrengthFromPosition ==
    (OpponentAnalyzed /\ StandingsFound) =>
        LET position == findall_digits(StandingsField(k_position))
        IN  position # <<>> =>
                /\ call.ret.strength_rating = ClaimedStrength(IntOfDigits(position[1]))
                /\ IntOfDigits(position[1]) = 3 => call.ret.strength_rating = 925

\* C8 witness: an opponent at position 3 was analysed and rated 92.5.
C8_Witness ==
    /\ OpponentAnalyzed
    /\ StandingsFound
    /\ StandingsField(k_position) = <<"3">>
    /\ call.ret.strength_rating = 925

\* C9 as stated: the tendency is "unknown" exactly when standings data of
\* the opponent is absent.
C9_UnknownOnlyWhenAbsent ==
    OpponentAnalyzed =>
        (call.ret.tactical_tendency = "unknown" <=> ~StandingsFound)

\* the tendency of the claim for two goal totals
ClaimedTendency(goals_for, goals_against) ==
    IF 10 * goals_for > 12 * goals_against THEN "offensive"
    ELSE IF 10 * goals_against > 12 * goals_for THEN "defensive"
    ELSE "balanced"

\* C9 amended: when a standings row was found and its goals-for and
\* goals-against cells read as integers the tendency is "offensive" if
\* goalsFor > goalsAgainst * 1.2, "defensive" if goalsAgainst > goalsFor *
\* 1.2, otherwise "balanced"; it is "unknown" when standings data is absent
\* and when one of the two cells does not read as an integer.
C9_TendencyFromGoals ==
    OpponentAnalyzed =>
        IF StandingsFound /\ py_int(StandingsField(k_goals_for)) # <<>>
                          /\ py_int(StandingsField(k_goals_against)) # <<>>
        THEN call.ret.tactical_tendency =
                ClaimedTendency(py_int(StandingsField(k_goals_for))[1],
                                py_int(StandingsField(k_goals_against))[1])
        ELSE call.ret.tactical_tendency = "unknown"

\* C9 witness: a standings row was found whose goals-for cell is "80:40",
\* and the tendency is "unknown".
C9_Witness ==
    /\ OpponentAnalyzed
    /\ StandingsFound
    /\ StandingsField(k_goals_for) = <<"8", "0", ":", "4", "0">>
    /\ call.ret.tactical_tendency = "unknown"

\* the win probability of the claim for two strengths in tenths, in
\* hundredths
ClaimedWinProbability(ours, theirs) == Max(500, Min(9500, 5000 + (ours - theirs) * 8))

\* C10 as stated: the win probability is 50 + (ourStrength - theirStrength)
\* * 0.8 clamped to [5, 95] for the baseline the caller holds.
C10_CallerBaseline ==
    OpponentAnalyzed =>
        call.ret.win_probability =
            ClaimedWinProbability(args.our_strength, call.ret.strength_rating)

\* C10 amended: the win probability is 50 + (55 - theirStrength) * 0.8
\* clamped to [5, 95], whatever baseline the caller holds.
C10_FixedBaseline ==
    OpponentAnalyzed =>
        call.ret.win_probability = ClaimedWinProbability(550, call.ret.strength_rating)

\* C10 witness: a caller that reckons its own strength at 70 analysed an
\* opponent of strength 92.5 and got 50 + (55 - 92.5) * 0.8 = 20.0.
C10_Witness ==
    /\ OpponentAnalyzed
    /\ args.our_strength = 700
    /\ call.ret.strength_rating = 925
    /\ call.ret.win_probability = 2000

----------------------------------------------------------------------------
(* Claims about the potential band                                         *)

PotentialAssessed == call.op = "assess_potential" /\ HasKey(player_data, k_age)

\* the age of the record the band was asked for
RecordAge == Lookup(player_data, k_age).i

\* C11: the potential band is defined for every age and follows the fixed
\* breakpoints: below 20 very high, 20 to 22 high, 23 to 26 good, 27 to 29
\* medium, 30 to 32 low, 33 and above very low.
C11_PotentialBreakpoints ==
    PotentialAssessed =>
        /\ RecordAge < 20 => call.ret = "Very High"
        /\ (20 <= RecordAge /\ RecordAge < 23) => call.ret = "High"
        /\ (23 <= RecordAge /\ RecordAge < 27) => call.ret = "Good"
        /\ (27 <= RecordAge /\ RecordAge < 30) => call.ret = "Medium"
        /\ (30 <= RecordAge /\ RecordAge < 33) => call.ret = "Low"
        /\ RecordAge >= 33 => call.ret = "Very Low"

\* C11 witness: the band of a 29-year-old was asked for and is medium.
C11_Witness == PotentialAssessed /\ RecordAge = 29 /\ call.ret = "Medium"

\* C12 as stated: age 19 is very high, 20 high, 33 low and 34 very low.
C12_BandExamples ==
    PotentialAssessed =>
        /\ RecordAge = 19 => call.ret = "Very High"
        /\ RecordAge = 20 => call.ret = "High"
        /\ RecordAge = 33 => call.ret = "Low"
        /\ RecordAge = 34 => call.ret = "Very Low"

\* C12 amended: age 19 is very high, 20 high, 32 low, 33 and 34 very low.
C12_BandExamplesAt33 ==
    PotentialAssessed =>
        /\ RecordAge = 19 => call.ret = "Very High"
        /\ RecordAge = 20 => call.ret = "High"
        /\ RecordAge = 32 => call.ret = "Low"
        /\ RecordAge = 33 => call.ret = "Very Low"
        /\ RecordAge = 34 => call.ret = "Very Low"

\* C12 witness: the band of a 33-year-old was asked for and is very low.
C12_Witness == PotentialAssessed /\ RecordAge = 33 /\ call.ret = "Very Low"


----------------------------------------------------------------------------
(* Claims about the extraction of our players                               *)

\* analyze_our_team has run and the team page arrived
TeamPageExtracted == call.op = "analyze_our_team" /\ ~call.players.raises

\* the table a record says it comes from
SourceTable(record) == soup[dict_get(record, k_source_table, IntVal(0)).i]

\* the header cells of a table that hold a keyword of the player lexicon
LexiconHits(table) ==
    {i \in 1..Len(table_headers(table)) :
        ContainsAny(table_headers(table)[i], our_player_indicators)}

\* C13: a table gives records only if it has at least 2 rows and at least 2
\* of its header cells hold a keyword of the player lexicon; a table with
\* fewer than 2 lexicon hits contributes no record.
C13_TwoLexiconHits ==
    TeamPageExtracted =>
        \A i \in 1..Len(our_players) :
            /\ Len(SourceTable(our_players[i])) >= 2
            /\ Cardinality(LexiconHits(SourceTable(our_players[i]))) >= 2


----------------------------------------------------------------------------
(* Claims about the rows an extraction keeps                                *)

\* the fields of a market record that come from cells of its row
RowFields(record) == {i \in 1..Len(record) : record[i].key # k_ai_analysis}

\* C14: a data row becomes a record only if at least 3 non-empty fields
\* remain, the keys the extraction adds itself not counted; a row with fewer
\* than 3 is rejected.
C14_ThreeFields ==
    MarketAnalyzed =>
        \A i \in 1..Len(market_data) : Cardinality(RowFields(market_data[i])) >= 3


\* the names the code gives the attributes of the closed set, and the keys an
\* extraction adds to a record itself
CanonicalKeys ==
    {k_goa, k_def, k_att, k_sho, k_pas, k_str, k_spe, k_dis, k_age, k_energy, k_form}
OwnKeys ==
    {k_source_table, k_row_number, k_name, k_ai_rating, k_best_position,
     k_potential_assessment}

\* C15: the keys of every extracted record are attributes of the closed set
\* (or keys the extraction adds itself): a column whose header matches no
\* known synonym is dropped and no raw header text is a key of a record.
C15_CanonicalKeysOnly ==
    TeamPageExtracted =>
        \A i \in 1..Len(our_players) : \A j \in 1..Len(our_players[i]) :
            our_players[i][j].key \in CanonicalKeys \cup OwnKeys


\* the row of the page a record comes from, its header cells, and the columns
\* of it that stand under an attribute header
SourceRow(record) ==
    SourceTable(record)[dict_get(record, k_row_number, IntVal(0)).i + 1]
SourceHeaders(record) == table_headers(SourceTable(record))
AttributeColumns(record) ==
    {c \in 1..Len(SourceRow(record)) :
        /\ c <= Len(SourceHeaders(record))
        /\ ContainsAny(SourceHeaders(record)[c], AttributeColumnKeys)}
CellText(record, c) == strip(SourceRow(record)[c])

\* the attributes a consumer reads from a record, and the field of
\* PlayerStats each one fills
StatFields ==
    {<<k_goa, "goa">>, <<k_def, "def_">>, <<k_att, "att">>, <<k_sho, "sho">>,
     <<k_pas, "pas">>, <<k_str, "str_">>, <<k_spe, "spe">>, <<k_dis, "dis">>}

\* C16: zero and absent are never confused: a cell with the text 0 under an
\* attribute header gives that attribute the value 0, an attribute is omitted
\* only when its cell is empty, is "-" or has no digit run, and an attribute
\* a record omits is never presented to a consumer as the value 0.
C16_ZeroIsNotAbsent ==
    TeamPageExtracted =>
        \A i \in 1..Len(our_players) :
            /\ \A c \in AttributeColumns(our_players[i]) :
                  /\ CellText(our_players[i], c) = <<"0">> =>
                        /\ HasKey(our_players[i], SourceHeaders(our_players[i])[c])
                        /\ dict_get(our_players[i], SourceHeaders(our_players[i])[c],
                                    IntVal(1)).i = 0
                  /\ ~HasKey(our_players[i], SourceHeaders(our_players[i])[c]) =>
                        \/ CellText(our_players[i], c) \in {<<>>, <<"-">>}
                        \/ findall_digits(CellText(our_players[i], c)) = <<>>
            /\ \A f \in StatFields :
                  ~HasKey(our_players[i], f[1]) => player_stat(our_players[i])[f[2]] # 0


\* the attributes the rating reads from one entry of a record, in the order
\* of attr_mapping, and the attribute the best position reads from it
RatingReads(entry) == ai_attributes(<<entry>>, attr_mapping)
BestPositionReads(entry) == best_position_attributes(<<entry>>)

\* C17: a header resolves to at most one attribute, the earliest entry of the
\* ordered synonym list that matches it, and to that entry only, in the rating
\* and in the best position alike.
C17_FirstSynonymWins ==
    TeamPageExtracted =>
        \A i \in 1..Len(our_players) : \A j \in 1..Len(our_players[i]) :
            InList(our_players[i][j].key, SourceHeaders(our_players[i])) =>
                /\ Len(RatingReads(our_players[i][j])) <= 1
                /\ (RatingReads(our_players[i][j]) # <<>>
                        /\ BestPositionReads(our_players[i][j]) # <<>>) =>
                      BestPositionReads(our_players[i][j])[1].key
                          = RatingReads(our_players[i][j])[1].key


\* a text made of letters only
Alphabetic(text) ==
    /\ text # <<>>
    /\ \A i \in 1..Len(text) :
          text[i] \notin DigitClass \cup WhitespaceClass \cup {"-", ".", ",", ":"}

\* the columns of a record's row that have a header and something in the cell
FilledColumns(record) ==
    {c \in 1..Len(SourceRow(record)) :
        /\ c <= Len(SourceHeaders(record))
        /\ CellText(record, c) \notin {<<>>, <<"-">>}}

\* the columns of the name slot, and the columns that hold letters only
NameColumns(record) ==
    {c \in FilledColumns(record) :
        \/ Contains(SourceHeaders(record)[c], k_ime)
        \/ Contains(SourceHeaders(record)[c], k_name)}
AlphabeticColumns(record) ==
    {c \in FilledColumns(record) : Alphabetic(CellText(record, c))}

FirstOf(columns) == CHOOSE c \in columns : \A d \in columns : c <= d

\* the name the fallback chain gives a record
ChainName(record) ==
    IF NameColumns(record) # {}
    THEN CellText(record, FirstOf(NameColumns(record)))
    ELSE IF AlphabeticColumns(record) # {}
    THEN CellText(record, FirstOf(AlphabeticColumns(record)))
    ELSE <<"P", "l", "a", "y", "e", "r", "_">>
         \o StrOfNat(dict_get(record, k_row_number, IntVal(0)).i)

\* C18: the name of a record is the field of the name slot if the row has
\* one, otherwise the first alphabetic field of the row, otherwise
\* "Player_<row>"; a later step is used only when the earlier ones have
\* nothing to offer.
C18_NameFallbackChain ==
    TeamPageExtracted =>
        \A i \in 1..Len(our_players) :
            dict_get(our_players[i], k_name, StrVal(<<>>)).s = ChainName(our_players[i])


----------------------------------------------------------------------------
(* Claims about determinism and about pages that cannot be obtained         *)

\* the team page has been analyzed twice, nothing on it having changed
AnalyzedTwice == call.op = "analyze_players_intelligently" /\ call.runs = 2

\* the records of the first and of the second analysis
FirstRun == SubSeq(data_players, 1, Len(data_players) - call.players_found)
SecondRun ==
    SubSeq(data_players, Len(data_players) - call.players_found + 1, Len(data_players))

\* C19: processing the same parsed document twice yields identical records,
\* ratings and best positions; no output field depends on the wall clock.
C19_SameDocumentSameRecords == AnalyzedTwice => FirstRun = SecondRun


\* C20: a page that cannot be obtained contributes no record and is never
\* fatal: every remaining page is still asked for, in the configured order.
C20_FailedPageNotFatal ==
    call.op = "analyze_our_team" =>
        /\ call.players.raises => our_players = <<>>
        /\ requested = <<players_url, info_url>>

----------------------------------------------------------------------------
(* Claims about pages that hold nothing                                    *)

\* the finance page holds no amount of money and no row of two cells with a
\* financial keyword
NothingQualifies ==
    /\ \A n \in 1..Len(money_patterns) :
          \A p \in 1..Len(get_text(soup)) :
             number_ends(get_text(soup), p, money_patterns[n]) = {}
    /\ \A r \in 1..Len(page_rows(soup)) :
          \/ Len(page_rows(soup)[r]) # 2
          \/ ~ContainsAny(lower(strip(page_rows(soup)[r][1])), financial_keywords)

\* C21: the analysis of a page on which nothing qualifies stores an empty
\* result and returns the signal that nothing was found, never success
C21_NothingFoundSignal ==
    (call.op = "analyze_finances_intelligently" /\ NothingQualifies)
        => (finances = <<>> /\ call.ret = FALSE)

----------------------------------------------------------------------------
(* Claims about the youth page                                             *)

\* the count recorded for the youth school, or -1 when none is recorded
YouthCount ==
    IF youth_school = Absent THEN -1
    ELSE dict_get(youth_school.s, k_count, IntVal(-1)).i

\* C28: the analysis of the youth page completes without raising, reports
\* success exactly when it accepted at least one prospect, and records for
\* the youth school the number of youth players it stored
C28_YouthCompletes ==
    call.op = "scrape_youth_school"
        => /\ call.raised = ""
           /\ call.ret = (Len(youth_players) > 0)
           /\ YouthCount = Len(youth_players)

----------------------------------------------------------------------------
(* Claims about the scenario of one listed player                          *)

\* the page of the scenario: the header row 'име' 'възраст' 'att' 'def'
\* and the row 'Ivanov' '24' '70' '40'
ScenarioPage ==
    << << <<k_ime, k_vazrast, k_att, k_def>>,
          << <<"I", "v", "a", "n", "o", "v">>, <<"2", "4">>, <<"7", "0">>, <<"4", "0">> >> >> >>

\* the record holds the text under a key that contains the word
HoldsUnder(record, word, text) ==
    \E i \in 1..Len(record) :
        /\ Contains(lower(record[i].key), word)
        /\ py_str(record[i].val) = text

\* the record of the scenario: Ivanov, 24, attack 70, defense 40, and a
\* rating of (70 x 0.3 + 40 x 0.05) / 0.35, between 65.5 and 66.5
ScenarioRecord(record) ==
    /\ \/ HoldsUnder(record, k_ime, <<"I", "v", "a", "n", "o", "v">>)
       \/ HoldsUnder(record, k_name, <<"I", "v", "a", "n", "o", "v">>)
    /\ \/ HoldsUnder(record, k_vazrast, <<"2", "4">>)
       \/ HoldsUnder(record, k_age, <<"2", "4">>)
    /\ HoldsUnder(record, k_att, <<"7", "0">>)
    /\ HoldsUnder(record, k_def, <<"4", "0">>)
    /\ dict_get(record, k_ai_rating, FloatVal(0)).i \in 655..665

\* C23: the analysis of the scenario's page stores one record, with the
\* name Ivanov, the age 24, attack 70, defense 40 and a forward rating of
\* about 66.0
C23_ScenarioRecord ==
    (call.op = "analyze_players_intelligently" /\ call.runs = 1 /\ soup = ScenarioPage)
        => (Len(data_players) = 1 /\ ScenarioRecord(data_players[1]))

----------------------------------------------------------------------------
(* Claims about the ranges of an opponent analysis                         *)

\* C30: in every analysis analyze_opponent produces the strength rating
\* lies between 50 and 100 and the win probability between 14 and 54, and
\* the instruction for a win probability above 70 is not among the match
\* instructions
C30_RangesOfAnalysis ==
    call.op = "analyze_opponent"
        => /\ call.ret.strength_rating \in 500..1000
           /\ call.ret.win_probability \in 1400..5400
           /\ ~InList("play_with_confidence", call.ret.match_instructions)

\* an analysis gathered for a team in position 0 of the league: the
\* strength at its upper end, the win probability at its lower end, and
\* the instruction for a win probability below 30 given
C30_Witness ==
    /\ call.op = "analyze_opponent"
    /\ call.data.t # "cached"
    /\ call.ret.strength_rating = 1000
    /\ call.ret.win_probability = 1400
    /\ InList("give_the_maximum", call.ret.match_instructions)

----------------------------------------------------------------------------
(* Claims about the opponent cache                                         *)

AnalysisFields ==
    {"name", "strength_rating", "tactical_tendency", "key_players", "weaknesses",
     "strengths", "win_probability", "recommended_tactics", "match_instructions"}

\* every entry of the cache is an analysis carried to its end, stored under
\* the name it is about
CacheComplete ==
    \A name \in DOMAIN opponent_cache :
        /\ DOMAIN opponent_cache[name] = AnalysisFields
        /\ opponent_cache[name].name = name
        /\ opponent_cache[name].win_probability
              = calculate_win_probability(opponent_cache[name])
        /\ opponent_cache[name].recommended_tactics
              = generate_counter_tactics(opponent_cache[name])
        /\ opponent_cache[name].match_instructions
              = generate_match_instructions(opponent_cache[name])

\* a call was made in this step
CallMade == call' # call /\ call'.op = "analyze_opponent"

\* a call for a name the cache holds returns the entry, gathers nothing and
\* leaves the cache as it was
RepeatReturnsCached ==
    (CallMade /\ call'.name \in DOMAIN opponent_cache)
        => /\ call'.ret = opponent_cache[call'.name]
           /\ call'.data.t = "cached"
           /\ opponent_cache' = opponent_cache

\* a call that returns the error dict leaves the cache as it was
ErrorStoresNothing ==
    (CallMade /\ "error" \in DOMAIN call'.ret) => opponent_cache' = opponent_cache

\* C27: the opponent cache holds only completed analyses; a repeated call
\* for a name returns the cached analysis without gathering again; a call
\* that ends with the error result stores nothing
C27_CacheDiscipline ==
    []CacheComplete /\ [][RepeatReturnsCached /\ ErrorStoresNothing]_vars

\* a repeated call has returned the cached analysis although the standings
\* have changed since and gathering again would give another analysis
C27_Witness ==
    /\ call.op = "analyze_opponent"
    /\ call.data.t = "cached"
    /\ call.ret = opponent_cache[call.name]
    /\ opponent_analysis(call.name, gather_opponent_data(soup, call.name, "ok")) # call.ret
    /\ \E other \in OpponentNames : other \notin DOMAIN opponent_cache

----------------------------------------------------------------------------
(* Claims about the lineup                                                 *)

\* the slots of a lineup, each with the player in it
LineupSlots(lineup) ==
    {<<"goalkeeper", i, lineup.goalkeeper[i]>> : i \in 1..Len(lineup.goalkeeper)}
    \cup {<<"defenders", i, lineup.defenders[i]>> : i \in 1..Len(lineup.defenders)}
    \cup {<<"centers", i, lineup.centers[i]>> : i \in 1..Len(lineup.centers)}
    \cup {<<"forwards", i, lineup.forwards[i]>> : i \in 1..Len(lineup.forwards)}

\* C29: in the lineup _select_optimal_lineup returns no player fills more
\* than one slot, and there are at most one goalkeeper, four defenders, two
\* centers and four forwards
C29_LineupDisjoint ==
    call.op = "select_optimal_lineup"
        => /\ \A s, t \in LineupSlots(call.ret) : s[3] = t[3] => s = t
           /\ Len(call.ret.goalkeeper) <= 1
           /\ Len(call.ret.defenders) <= 4
           /\ Len(call.ret.centers) <= 2
           /\ Len(call.ret.forwards) <= 4

----------------------------------------------------------------------------
(* Claims about the run                                                    *)

\* the run has asked for one of the pages it analyses, analysed a page,
\* made the AI analysis or written a file
RunHasWorked ==
    \/ \E i \in 1..Len(requested) : InList(requested[i], analysis_pages)
    \/ run.analysed # {}
    \/ run.ai_analysis
    \/ run.files # {}

\* C24: login gates the run: nothing is fetched, analysed, computed or
\* written unless login has returned success, and a run whose login failed
\* has ended with failure
C24_LoginGatesRun ==
    /\ run.login # "ok" => ~RunHasWorked
    /\ run.login = "failed" => (run.pc = "done" /\ run.ret = FALSE)

\* a run whose login was refused after its three requests, ended
C24_Witness ==
    /\ run.login = "failed"
    /\ requested = login_requests
    /\ run.pc = "done"

----------------------------------------------------------------------------
(* Claims about the comprehensive analysis of the GUI                      *)

\* a start request was served in this step while an analysis was running
StartWhileRunning ==
    /\ gui.running
    /\ call' # call
    /\ call'.op = "start_comprehensive_analysis"

\* C25: at most one comprehensive analysis is in flight at any time, and a
\* start request that arrives while `running` is true starts no thread and
\* leaves the state of the GUI as it was
C25_OneAnalysisInFlight ==
    /\ [](Cardinality(InFlight) <= 1)
    /\ [][StartWhileRunning => gui' = gui]_vars

\* a start request was refused while the one analysis in flight was at work
C25_Witness ==
    /\ call.op = "start_comprehensive_analysis"
    /\ call.ret = "already_running"
    /\ gui.running
    /\ Cardinality(InFlight) = 1
    /\ Len(gui.threads) = 2

\* every thread has scheduled its completed or failed callback once when
\* it has ended, and none before
OneCallbackEach ==
    \A t \in Threads :
        Len(gui.threads[t].callbacks) = (IF gui.threads[t].pc = "done" THEN 1 ELSE 0)

----------------------------------------------------------------------------
(* Claims about the opponents collection of the GUI                        *)

\* the main thread is inside the loop of update_opponents_list: the keys
\* were listed and an entry is still to be read
ListingInProgress == gui.main.pc = "listing"

\* a thread other than the main thread writes self.opponents_data in this
\* step: an analysis thread assigns the dict, a thread analyze or
\* analyze_all stores an entry
StoresOpponents ==
    \/ \E t \in Threads : args.deep_analysis /\ WorkerAnalyzesOpponents(t)
    \/ \E w \in Workers : AnalyzeStores(w)
    \/ \E w \in Workers : AnalyzeAllStores(w)

\* C22: the writes of opponent analyses into opponents_data are serialized
\* against its readers: no thread writes the collection while the main
\* thread is reading its entries in update_opponents_list.  (A store is one
\* step of its thread, so two stores never fall into the same step; what
\* is left of the claim is that no store falls between the reads of one
\* listing.)
C22_WritesSerialized == [][ListingInProgress => ~StoresOpponents]_vars

\* a listing ended with a KeyError: the dict was assigned anew between the
\* listing of the keys and the read of an entry
ListingRaisesKeyError == gui.raised = "KeyError"

============================================================================
